---------------------------- MODULE Spec2Model ----------------------------
(* CareTraceAI: the MemoryAgent store, the SafetyAgent (drug interaction   *)
(* lookup, severity ranking) and the PatternAgent (keyword extraction,     *)
(* recurring symptoms).  Python strings are sequences of one-character     *)
(* strings, so that lower(), strip(), split() and re.sub() are computed.   *)
EXTENDS Integers, Sequences, FiniteSets, TLC

VARIABLES
    events,        \* patient_events collection: sequence of points, in scroll order
    interactions,  \* drug_interactions collection: sequence of points, in scroll order
    nextId,        \* per collection, the next fresh point id (uuid4 in the source)
    call,          \* the last operation called, with its arguments
    result,        \* what that operation returned
    session        \* a caller in the middle of an operation: its position and locals

vars == <<events, interactions, nextId, call, result, session>>

None == "None"

\* No operation is under way.
Idle == [pc |-> "idle"]

(***************************************************************************)
(* Python str                                                              *)
(***************************************************************************)
\* The characters of the model, in code point order.
Alphabet ==
    <<" ","!","(",")",",","-",".","0","1","2","3","4","5","6","7","8","9",":",";","?",
      "A","B","C","D","E","F","G","H","I","J","K","L","M","N","O","P","Q","R","S","T",
      "U","V","W","X","Y","Z","_",
      "a","b","c","d","e","f","g","h","i","j","k","l","m","n","o","p","q","r","s","t",
      "u","v","w","x","y","z">>

UpperLetters ==
    <<"A","B","C","D","E","F","G","H","I","J","K","L","M","N","O","P","Q","R","S","T",
      "U","V","W","X","Y","Z">>

LowerLetters ==
    <<"a","b","c","d","e","f","g","h","i","j","k","l","m","n","o","p","q","r","s","t",
      "u","v","w","x","y","z">>

Digits == {"0","1","2","3","4","5","6","7","8","9"}

Range(s) == {s[i] : i \in DOMAIN s}

IndexIn(c, s) == CHOOSE i \in DOMAIN s : s[i] = c

Chars == Range(Alphabet)

\* ord(c), up to an order-preserving renumbering
CodePoint == [c \in Chars |-> IndexIn(c, Alphabet)]

CharCode(c) == CodePoint[c]

LowerOf ==
    [c \in Chars |->
        IF c \in Range(UpperLetters) THEN LowerLetters[IndexIn(c, UpperLetters)] ELSE c]

UpperOf ==
    [c \in Chars |->
        IF c \in Range(LowerLetters) THEN UpperLetters[IndexIn(c, LowerLetters)] ELSE c]

LowerChar(c) == LowerOf[c]

UpperChar(c) == UpperOf[c]

\* str.lower()
Lower(s) == [i \in 1..Len(s) |-> LowerChar(s[i])]

\* str.upper()
Upper(s) == [i \in 1..Len(s) |-> UpperChar(s[i])]

\* s < t on Python strings: lexicographic by code point, a proper prefix first.
StrLess(s, t) ==
    \E k \in 1..(Len(t)) :
        /\ \A j \in 1..(k - 1) : j <= Len(s) /\ s[j] = t[j]
        /\ k - 1 <= Len(s)
        /\ \/ k = Len(s) + 1
           \/ k <= Len(s) /\ CharCode(s[k]) < CharCode(t[k])

\* The characters str.split() and str.strip() treat as whitespace, and \s.
Whitespace == {" ", "\t", "\n"}

\* \w of the re module
WordChars == Range(UpperLetters) \cup Range(LowerLetters) \cup Digits \cup {"_"}

IsWordChar(c) == c \in WordChars

\* str.strip(chars)
RECURSIVE LStrip(_, _)
LStrip(s, chars) ==
    IF s /= <<>> /\ Head(s) \in chars THEN LStrip(Tail(s), chars) ELSE s

RECURSIVE RStrip(_, _)
RStrip(s, chars) ==
    IF s /= <<>> /\ s[Len(s)] \in chars THEN RStrip(SubSeq(s, 1, Len(s) - 1), chars) ELSE s

Strip(s, chars) == RStrip(LStrip(s, chars), chars)

\* str.split(): the maximal runs of non-whitespace characters, in order.
RECURSIVE SplitFrom(_, _, _)
SplitFrom(s, i, word) ==
    IF i > Len(s)
    THEN IF word = <<>> THEN <<>> ELSE <<word>>
    ELSE IF s[i] \in Whitespace
         THEN IF word = <<>> THEN SplitFrom(s, i + 1, <<>>)
                             ELSE <<word>> \o SplitFrom(s, i + 1, <<>>)
         ELSE SplitFrom(s, i + 1, Append(word, s[i]))

Split(s) == SplitFrom(s, 1, <<>>)

\* dict.get(key, default)
Get(d, key, default) == IF key \in DOMAIN d THEN d[key] ELSE default

\* sorted(list(S)) for a set S of strings
RECURSIVE SortedList(_)
SortedList(S) ==
    IF S = {} THEN <<>>
    ELSE LET m == CHOOSE x \in S : \A y \in S \ {x} : StrLess(x, y)
         IN  <<m>> \o SortedList(S \ {m})

\* s[:n]
Take(s, n) == SubSeq(s, 1, IF Len(s) < n THEN Len(s) ELSE n)


(***************************************************************************)
(* MemoryAgent (src/agents/memory_agent.py)                                *)
(***************************************************************************)
HISTORY_LIMIT == 100

INTERACTIONS_LIMIT == 1000

\* self.encoder.encode(text): the core never inspects the vector; it is a function of the text.
encode(text) == <<"embedding", text>>

\* PointStruct(id, vector, payload)
PointStruct(id, vector, payload) == [id |-> id, vector |-> vector, payload |-> payload]

\* MemoryAgent.store_event: the collection after the upsert of a fresh point.
store_event(coll, id, event) ==
    Append(coll, PointStruct(id, encode(event.text), event))

\* self.client.upsert(points=[point]): the point takes the place of the point
\* with its id, or is added; scroll returns the points in the order of their ids.
upsert(coll, point) ==
    IF \E i \in DOMAIN coll : coll[i].id = point.id
    THEN [i \in DOMAIN coll |-> IF coll[i].id = point.id THEN point ELSE coll[i]]
    ELSE SelectSeq(coll, LAMBDA pt : pt.id < point.id) \o <<point>>
             \o SelectSeq(coll, LAMBDA pt : pt.id > point.id)

\* MemoryAgent.delete_event: the collection after the delete.
delete_event(coll, point_id) == SelectSeq(coll, LAMBDA pt : pt.id /= point_id)

\* MemoryAgent.update_event: the collection after the upsert.
update_event(coll, point_id, updated_event) ==
    upsert(coll, PointStruct(point_id, encode(updated_event.text), updated_event))

\* The payload store_drug_interaction writes: explanation is backfilled.
InteractionPayload(interaction) ==
    IF "explanation" \in DOMAIN interaction
    THEN interaction
    ELSE ("explanation" :> Get(interaction, "description", <<>>)) @@ interaction

\* Python None in a field whose other values are strings: a sequence that is
\* no string of the model.
Null == <<"None">>

\* f"{value}"
Format(value) == IF value = Null THEN <<"N","o","n","e">> ELSE value

\* MemoryAgent.store_drug_interaction
store_drug_interaction(coll, id, interaction) ==
    LET payload == InteractionPayload(interaction)
        text == payload.drug_a \o <<" ","a","n","d"," ">> \o payload.drug_b
                    \o <<":"," ">> \o Format(payload.explanation)
    IN  Append(coll, PointStruct(id, encode(text), payload))

\* events.sort(key=lambda x: x.get("timestamp", ""), reverse=True): stable,
\* equal keys keep their order.
RECURSIVE SortNewestFirst(_)
SortNewestFirst(evs) ==
    IF evs = <<>> THEN <<>>
    ELSE LET n == Len(evs)
             last == evs[n]
             key(e) == Get(e, "timestamp", <<>>)
             rest == SortNewestFirst(SubSeq(evs, 1, n - 1))
             \* last goes after every element whose key is >= its key
             before == SelectSeq(rest, LAMBDA e : ~StrLess(key(e), key(last)))
             after == SelectSeq(rest, LAMBDA e : StrLess(key(e), key(last)))
         IN  before \o <<last>> \o after

\* MemoryAgent.get_patient_history(patient_id, event_type): event_type None is no filter.
get_patient_history(coll, patient_id, event_type) ==
    LET matches(pt) ==
            /\ Get(pt.payload, "patient_id", None) = patient_id
            /\ event_type /= None => Get(pt.payload, "event_type", None) = event_type
        results == Take(SelectSeq(coll, matches), HISTORY_LIMIT)
        evs == [i \in 1..Len(results) |->
                   ("point_id" :> results[i].id) @@ results[i].payload]
    IN  SortNewestFirst(evs)

\* MemoryAgent.get_all_drug_interactions
get_all_drug_interactions(coll) ==
    LET results == Take(coll, INTERACTIONS_LIMIT)
    IN  [i \in 1..Len(results) |->
            IF "explanation" \in DOMAIN results[i].payload
            THEN results[i].payload
            ELSE ("explanation" :> Get(results[i].payload, "description", <<>>))
                     @@ results[i].payload]

(***************************************************************************)
(* SafetyAgent (src/agents/safety_agent.py)                                *)
(***************************************************************************)
\* SafetyAgent._get_patient_medications
RECURSIVE UnionDrugs(_)
UnionDrugs(prescriptions) ==
    IF prescriptions = <<>> THEN {}
    ELSE Range(Get(Head(prescriptions), "drugs", <<>>)) \cup UnionDrugs(Tail(prescriptions))

_get_patient_medications(evColl, patient_id) ==
    SortedList(UnionDrugs(get_patient_history(evColl, patient_id, "prescription")))

\* Mutant: only the stored order (drug_a = new drug) is tested.
InteractionMatches_OneSided(interaction, new_drug_lower, current_drugs_lower) ==
    /\ Lower(interaction.drug_a) = new_drug_lower
    /\ Lower(interaction.drug_b) \in Range(current_drugs_lower)

\* The test of the loop body of SafetyAgent._find_interactions
InteractionMatches(interaction, new_drug_lower, current_drugs_lower) ==
    LET drug_a == Lower(interaction.drug_a)
        drug_b == Lower(interaction.drug_b)
    IN  \/ drug_a = new_drug_lower /\ drug_b \in Range(current_drugs_lower)
        \/ drug_b = new_drug_lower /\ drug_a \in Range(current_drugs_lower)

\* Mutant: the loop stops at the first match.
RECURSIVE FindLoop_FirstOnly(_, _, _)
FindLoop_FirstOnly(all_interactions, new_drug_lower, current_drugs_lower) ==
    IF all_interactions = <<>> THEN <<>>
    ELSE IF InteractionMatches(Head(all_interactions), new_drug_lower, current_drugs_lower)
         THEN <<Head(all_interactions)>>
         ELSE FindLoop_FirstOnly(Tail(all_interactions), new_drug_lower,
                                 current_drugs_lower)

\* The loop of SafetyAgent._find_interactions over all_interactions
RECURSIVE FindLoop(_, _, _)
FindLoop(all_interactions, new_drug_lower, current_drugs_lower) ==
    IF all_interactions = <<>> THEN <<>>
    ELSE LET interaction == Head(all_interactions)
             rest == FindLoop(Tail(all_interactions), new_drug_lower, current_drugs_lower)
         IN  IF InteractionMatches(interaction, new_drug_lower, current_drugs_lower)
             THEN <<interaction>> \o rest
             ELSE rest

\* SafetyAgent._find_interactions
_find_interactions(ixColl, new_drug, current_drugs) ==
    FindLoop(get_all_drug_interactions(ixColl),
             Lower(new_drug),
             [i \in 1..Len(current_drugs) |-> Lower(current_drugs[i])])

\* severity_order.get(severity, 1)
severity_order(severity) ==
    CASE severity = <<"s","e","v","e","r","e">> -> 3
      [] severity = <<"m","o","d","e","r","a","t","e">> -> 2
      [] severity = <<"m","i","l","d">> -> 1
      [] OTHER -> 1

\* Mutant: `value >= max_value`, so an equal rank replaces max_level.
RECURSIVE MaxSeverityLoop_Geq(_, _, _)
MaxSeverityLoop_Geq(list, max_level, max_value) ==
    IF list = <<>> THEN max_level
    ELSE LET severity == Lower(Get(Head(list), "severity", <<"m","i","l","d">>))
             value == severity_order(severity)
         IN  IF value >= max_value
             THEN MaxSeverityLoop_Geq(Tail(list), severity, value)
             ELSE MaxSeverityLoop_Geq(Tail(list), max_level, max_value)

\* Mutant: max_value is not updated, so every rank above 1 replaces max_level.
RECURSIVE MaxSeverityLoop_NoUpdate(_, _, _)
MaxSeverityLoop_NoUpdate(list, max_level, max_value) ==
    IF list = <<>> THEN max_level
    ELSE LET severity == Lower(Get(Head(list), "severity", <<"m","i","l","d">>))
             value == severity_order(severity)
         IN  IF value > max_value
             THEN MaxSeverityLoop_NoUpdate(Tail(list), severity, max_value)
             ELSE MaxSeverityLoop_NoUpdate(Tail(list), max_level, max_value)

\* The loop of SafetyAgent._get_max_severity: max_level after the rest of the list
RECURSIVE MaxSeverityLoop(_, _, _)
MaxSeverityLoop(list, max_level, max_value) ==
    IF list = <<>> THEN max_level
    ELSE LET severity == Lower(Get(Head(list), "severity", <<"m","i","l","d">>))
             value == severity_order(severity)
         IN  IF value > max_value
             THEN MaxSeverityLoop(Tail(list), severity, value)
             ELSE MaxSeverityLoop(Tail(list), max_level, max_value)

\* SafetyAgent._get_max_severity
_get_max_severity(list) == MaxSeverityLoop(list, <<"m","i","l","d">>, 1)

\* SafetyAgent.check_new_medication after _get_patient_medications (lines 54-80)
CheckAgainst(current_drugs, ixColl, new_drug) ==
    LET found == _find_interactions(ixColl, new_drug, current_drugs)
    IN  IF current_drugs = <<>>
        THEN [safe |-> TRUE, new_drug |-> new_drug, current_drugs |-> <<>>,
              interactions |-> <<>>,
              message |-> <<"No current medications on record.">>]
        ELSE IF found = <<>>
        THEN [safe |-> TRUE, new_drug |-> new_drug, current_drugs |-> current_drugs,
              interactions |-> <<>>,
              message |-> <<"No known interactions found between ", new_drug,
                            " and current medications.">>]
        ELSE [safe |-> FALSE, new_drug |-> new_drug, current_drugs |-> current_drugs,
              interactions |-> found,
              max_severity |-> _get_max_severity(found),
              message |-> <<"Found ", Len(found),
                            " potential interaction(s). Maximum severity: ",
                            Upper(_get_max_severity(found))>>]

\* Mutant: no early return for an empty drug list.
check_new_medication_NoEarlyReturn(evColl, ixColl, patient_id, new_drug) ==
    LET current_drugs == _get_patient_medications(evColl, patient_id)
        found == _find_interactions(ixColl, new_drug, current_drugs)
    IN  IF found = <<>>
        THEN [safe |-> TRUE, new_drug |-> new_drug, current_drugs |-> current_drugs,
              interactions |-> <<>>,
              message |-> <<"No known interactions found between ", new_drug,
                            " and current medications.">>]
        ELSE [safe |-> FALSE, new_drug |-> new_drug, current_drugs |-> current_drugs,
              interactions |-> found,
              max_severity |-> _get_max_severity(found),
              message |-> <<"Found ", Len(found),
                            " potential interaction(s). Maximum severity: ",
                            Upper(_get_max_severity(found))>>]

\* SafetyAgent.check_new_medication: the dict it returns
check_new_medication(evColl, ixColl, patient_id, new_drug) ==
    CheckAgainst(_get_patient_medications(evColl, patient_id), ixColl, new_drug)

\* Python None where the other return values are dicts.
NoneDict == [none |-> TRUE]

\* Mutant: only the order of the arguments is tested.
DetailsMatch_OneSided(interaction, drug_a_lower, drug_b_lower) ==
    Lower(interaction.drug_a) = drug_a_lower /\ Lower(interaction.drug_b) = drug_b_lower

\* The test of the loop body of SafetyAgent.get_interaction_details
DetailsMatch(interaction, drug_a_lower, drug_b_lower) ==
    LET ia == Lower(interaction.drug_a)
        ib == Lower(interaction.drug_b)
    IN  \/ ia = drug_a_lower /\ ib = drug_b_lower
        \/ ia = drug_b_lower /\ ib = drug_a_lower

\* The loop of SafetyAgent.get_interaction_details: the first match is returned.
RECURSIVE DetailsLoop(_, _, _)
DetailsLoop(all_interactions, drug_a_lower, drug_b_lower) ==
    IF all_interactions = <<>> THEN NoneDict
    ELSE IF DetailsMatch(Head(all_interactions), drug_a_lower, drug_b_lower)
         THEN Head(all_interactions)
         ELSE DetailsLoop(Tail(all_interactions), drug_a_lower, drug_b_lower)

\* SafetyAgent.get_interaction_details
get_interaction_details(ixColl, drug_a, drug_b) ==
    DetailsLoop(get_all_drug_interactions(ixColl), Lower(drug_a), Lower(drug_b))

(***************************************************************************)
(* Keyword extraction (src/utils/helpers.py, src/agents/pattern_agent.py)  *)
(***************************************************************************)
\* stop_words of PatternAgent._extract_keywords
AgentStopWords == {
    <<"i">>, <<"a","m">>, <<"h","a","v","e">>, <<"b","e","e","n">>, <<"h","a","v","i","n","g">>,
    <<"f","e","e","l">>, <<"f","e","e","l","i","n","g">>, <<"t","h","e">>, <<"a">>, <<"a","n">>,
    <<"a","n","d">>, <<"o","r">>, <<"b","u","t">>, <<"i","n">>, <<"o","n">>, <<"a","t">>,
    <<"t","o">>, <<"f","o","r">>, <<"o","f">>, <<"w","i","t","h">>, <<"m","y">>, <<"m","e">>,
    <<"i","s">>, <<"w","a","s">>, <<"a","r","e">> }

\* stop_words of extract_keywords_from_text
HelperStopWords == {
    <<"t","h","e">>, <<"a">>, <<"a","n">>, <<"a","n","d">>, <<"o","r">>, <<"b","u","t">>,
    <<"i","n">>, <<"o","n">>, <<"a","t">>, <<"t","o">>, <<"f","o","r">>, <<"o","f">>,
    <<"w","i","t","h">>, <<"b","y">>, <<"f","r","o","m">>, <<"a","s">>, <<"i","s">>,
    <<"w","a","s">>, <<"a","r","e">>, <<"w","e","r","e">>, <<"b","e","e","n">>, <<"b","e">>,
    <<"h","a","v","e">>, <<"h","a","s">>, <<"h","a","d">>, <<"d","o">>, <<"d","o","e","s">>,
    <<"d","i","d">>, <<"w","i","l","l">>, <<"w","o","u","l","d">>, <<"s","h","o","u","l","d">>,
    <<"c","o","u","l","d">>, <<"m","a","y">>, <<"m","i","g","h","t">>, <<"m","u","s","t">>,
    <<"c","a","n">>, <<"t","h","i","s">>, <<"t","h","a","t">>, <<"t","h","e","s","e">>,
    <<"t","h","o","s","e">>, <<"i">>, <<"y","o","u">>, <<"h","e">>, <<"s","h","e">>,
    <<"i","t">>, <<"w","e">>, <<"t","h","e","y">>, <<"m","y">>, <<"y","o","u","r">>,
    <<"h","i","s">>, <<"h","e","r">>, <<"i","t","s">>, <<"o","u","r">>, <<"t","h","e","i","r">>,
    <<"m","e">>, <<"h","i","m">>, <<"t","h","e","m">>, <<"u","s">>, <<"a","m">>,
    <<"b","e","i","n","g">> }

\* The characters word.strip(".,!?;:") removes
StripChars == {".", ",", "!", "?", ";", ":"}

\* PatternAgent._extract_keywords: the filter looks at the word as split, the
\* strip is applied to the words that passed it.
_extract_keywords(text) ==
    LET words == Split(Lower(text))
        kept == SelectSeq(words, LAMBDA word : Len(word) > 3 /\ word \notin AgentStopWords)
    IN  [i \in 1..Len(kept) |-> Strip(kept[i], StripChars)]

\* Mutant: punctuation is left in the text.
SubNonWord_Keep(text) == text

\* re.sub(r'[^\w\s]', ' ', text)
SubNonWord(text) ==
    [i \in 1..Len(text) |->
        IF IsWordChar(text[i]) \/ text[i] \in Whitespace THEN text[i] ELSE " "]

\* helpers.extract_keywords_from_text
extract_keywords_from_text(text, min_length) ==
    LET words == Split(SubNonWord(Lower(text)))
    IN  SelectSeq(words, LAMBDA word : Len(word) >= min_length /\ word \notin HelperStopWords)

(***************************************************************************)
(* PatternAgent (src/agents/pattern_agent.py)                              *)
(***************************************************************************)
PATTERN_REPEAT_THRESHOLD == 2

\* all_keywords.extend(item["keywords"]) over keyword_occurrences
RECURSIVE AllKeywords(_)
AllKeywords(keyword_occurrences) ==
    IF keyword_occurrences = <<>> THEN <<>>
    ELSE Head(keyword_occurrences).keywords \o AllKeywords(Tail(keyword_occurrences))

\* Counter(all_keywords)[kw]
Counter(all_keywords, kw) == Cardinality({i \in DOMAIN all_keywords : all_keywords[i] = kw})

\* The keys of Counter(all_keywords), in insertion (first occurrence) order
CounterKeys(all_keywords) ==
    LET first == {i \in DOMAIN all_keywords :
                     \A j \in 1..(i - 1) : all_keywords[j] /= all_keywords[i]}
        isFirst[i \in DOMAIN all_keywords] == i \in first
        RECURSIVE keys(_)
        keys(i) == IF i > Len(all_keywords) THEN <<>>
                   ELSE IF isFirst[i] THEN <<all_keywords[i]>> \o keys(i + 1)
                   ELSE keys(i + 1)
    IN  keys(1)

\* Mutant: `count > PATTERN_REPEAT_THRESHOLD`
IsRecurring_Strict(count) == count > PATTERN_REPEAT_THRESHOLD

\* The test of the `recurring` comprehension
IsRecurring(count) == count >= PATTERN_REPEAT_THRESHOLD

InsufficientDataMessage ==
    <<"Insufficient data to detect patterns (need at least 2 symptom reports)">>

NoPatternsMessage == <<"No recurring symptom patterns detected">>

\* Mutant: only the first report with the keyword is kept.
OccurrencesOf_FirstOnly(keyword_occurrences, keyword) ==
    Take(SelectSeq(keyword_occurrences, LAMBDA item : keyword \in Range(item.keywords)), 1)

\* occurrences = [item for item in keyword_occurrences if keyword in item["keywords"]]
OccurrencesOf(keyword_occurrences, keyword) ==
    SelectSeq(keyword_occurrences, LAMBDA item : keyword \in Range(item.keywords))

\* The body of detect_recurring_symptoms after the check of len(symptoms)
DetectPatterns(symptoms) ==
    LET keyword_occurrences ==
            [i \in 1..Len(symptoms) |->
                [keywords |-> _extract_keywords(symptoms[i].text),
                 timestamp |-> Get(symptoms[i], "timestamp", <<>>),
                 full_text |-> symptoms[i].text]]
        all_keywords == AllKeywords(keyword_occurrences)
        recurring == SelectSeq(CounterKeys(all_keywords),
                               LAMBDA kw : IsRecurring(Counter(all_keywords, kw)))
        pattern(keyword) ==
            LET occurrences == OccurrencesOf(keyword_occurrences, keyword)
            IN  [symptom_keyword |-> keyword,
                 occurrence_count |-> Counter(all_keywords, keyword),
                 dates |-> [j \in 1..Len(occurrences) |-> occurrences[j].timestamp],
                 reports |-> [j \in 1..Len(occurrences) |-> occurrences[j].full_text]]
        patterns == [i \in 1..Len(recurring) |-> pattern(recurring[i])]
    IN  IF recurring = <<>>
        THEN [has_patterns |-> FALSE, message |-> NoPatternsMessage]
        ELSE [has_patterns |-> TRUE, recurring_symptoms |-> patterns,
              message |-> <<"Detected ", Len(patterns), " recurring symptom pattern(s)">>]

\* Mutant: no check of the number of symptom reports.
detect_recurring_symptoms_NoMinimum(evColl, patient_id) ==
    DetectPatterns(get_patient_history(evColl, patient_id, "symptom"))

\* PatternAgent.detect_recurring_symptoms: the dict it returns
detect_recurring_symptoms(evColl, patient_id) ==
    LET symptoms == get_patient_history(evColl, patient_id, "symptom")
    IN  IF Len(symptoms) < 2
        THEN [has_patterns |-> FALSE, message |-> InsufficientDataMessage]
        ELSE DetectPatterns(symptoms)

\* The number of calls of _extract_keywords detect_recurring_symptoms makes
ExtractCalls(evColl, patient_id) ==
    LET symptoms == get_patient_history(evColl, patient_id, "symptom")
    IN  IF Len(symptoms) < 2 THEN 0 ELSE Len(symptoms)

(***************************************************************************)
(* datetime (standard library), on the timestamp forms of the model:       *)
(* "YYYY-MM-DD" and "YYYY-MM-DD?HH:MM:SS"                                  *)
(***************************************************************************)
DigitValue == [c \in Digits |-> IndexIn(c, <<"0","1","2","3","4","5","6","7","8","9">>) - 1]

IsDigits(s) == \A i \in DOMAIN s : s[i] \in Digits

\* int(s) for a string of digits
RECURSIVE ToInt(_)
ToInt(s) == IF s = <<>> THEN 0 ELSE 10 * ToInt(SubSeq(s, 1, Len(s) - 1)) + DigitValue[s[Len(s)]]

IsLeap(year) == year % 4 = 0 /\ (year % 100 /= 0 \/ year % 400 = 0)

DaysInMonth(year, month) ==
    IF month = 2 THEN (IF IsLeap(year) THEN 29 ELSE 28)
    ELSE IF month \in {4, 6, 9, 11} THEN 30 ELSE 31

RECURSIVE DaysBeforeMonth(_, _)
DaysBeforeMonth(year, month) ==
    IF month = 1 THEN 0
    ELSE DaysBeforeMonth(year, month - 1) + DaysInMonth(year, month - 1)

\* date.toordinal(): the number of the day, 0001-01-01 being day 1.
ToOrdinal(year, month, day) ==
    LET y == year - 1
    IN  y * 365 + (y \div 4) - (y \div 100) + (y \div 400)
            + DaysBeforeMonth(year, month) + day

DateIsValid(s) ==
    /\ Len(s) = 10
    /\ s[5] = "-" /\ s[8] = "-"
    /\ IsDigits(SubSeq(s, 1, 4)) /\ IsDigits(SubSeq(s, 6, 7)) /\ IsDigits(SubSeq(s, 9, 10))
    /\ ToInt(SubSeq(s, 1, 4)) >= 1
    /\ ToInt(SubSeq(s, 6, 7)) \in 1..12
    /\ ToInt(SubSeq(s, 9, 10)) \in
           1..DaysInMonth(ToInt(SubSeq(s, 1, 4)), ToInt(SubSeq(s, 6, 7)))

TimeIsValid(s) ==
    /\ Len(s) = 8
    /\ s[3] = ":" /\ s[6] = ":"
    /\ IsDigits(SubSeq(s, 1, 2)) /\ IsDigits(SubSeq(s, 4, 5)) /\ IsDigits(SubSeq(s, 7, 8))
    /\ ToInt(SubSeq(s, 1, 2)) \in 0..23
    /\ ToInt(SubSeq(s, 4, 5)) \in 0..59
    /\ ToInt(SubSeq(s, 7, 8)) \in 0..59

\* Whether datetime.fromisoformat(s) returns (it raises ValueError otherwise).
IsIsoFormat(s) ==
    \/ DateIsValid(s)
    \/ Len(s) = 19 /\ DateIsValid(SubSeq(s, 1, 10)) /\ TimeIsValid(SubSeq(s, 12, 19))

\* datetime.fromisoformat(s), as the day number and the second of the day.
fromisoformat(s) ==
    LET date == SubSeq(s, 1, 10)
        time == SubSeq(s, 12, 19)
    IN  [ordinal |-> ToOrdinal(ToInt(SubSeq(date, 1, 4)), ToInt(SubSeq(date, 6, 7)),
                               ToInt(SubSeq(date, 9, 10))),
         second  |-> IF Len(s) = 19
                     THEN 3600 * ToInt(SubSeq(time, 1, 2)) + 60 * ToInt(SubSeq(time, 4, 5))
                              + ToInt(SubSeq(time, 7, 8))
                     ELSE 0]

\* Floor division, as timedelta normalises: 0 <= seconds < 86400.
FloorDiv(a, b) == IF a >= 0 THEN a \div b ELSE -((-a + b - 1) \div b)

\* (a - b).days
TimedeltaDays(a, b) ==
    FloorDiv((a.ordinal - b.ordinal) * 86400 + (a.second - b.second), 86400)

Abs(n) == IF n < 0 THEN -n ELSE n

(***************************************************************************)
(* PatternAgent.correlate_with_medications (src/agents/pattern_agent.py)   *)
(***************************************************************************)
CORRELATION_WINDOW_DAYS == 7

\* `sub in s` on strings
Contains(sub, s) ==
    \E i \in 1..(Len(s) - Len(sub) + 1) : SubSeq(s, i, i + Len(sub) - 1) = sub

\* Mutant: a pair at the edge of the window is left out.
InWindow_Strict(time_diff) == time_diff < CORRELATION_WINDOW_DAYS

\* time_diff <= 7
InWindow(time_diff) == time_diff <= CORRELATION_WINDOW_DAYS

\* What a loop returns: the records appended so far, or the exception raised.
Returned(value) == [raised |-> None, value |-> value]

Raised(exception) == [raised |-> exception, value |-> <<>>]

\* datetime.fromisoformat(event["timestamp"]): KeyError without the key,
\* ValueError for a string that is not in ISO format.
TimestampError(event) ==
    IF "timestamp" \notin DOMAIN event THEN "KeyError"
    ELSE IF ~IsIsoFormat(event.timestamp) THEN "ValueError"
    ELSE None

\* The inner loop: for rx in prescriptions
RECURSIVE PrescriptionLoop(_, _, _)
PrescriptionLoop(symptom, symptom_time, prescriptions) ==
    IF prescriptions = <<>> THEN Returned(<<>>)
    ELSE LET rx == Head(prescriptions)
         IN  IF TimestampError(rx) /= None THEN Raised(TimestampError(rx))
             ELSE LET rx_time == fromisoformat(rx.timestamp)
                      time_diff == Abs(TimedeltaDays(symptom_time, rx_time))
                      rest == PrescriptionLoop(symptom, symptom_time, Tail(prescriptions))
                      record == [symptom_text |-> symptom.text,
                                 symptom_date |-> symptom.timestamp,
                                 prescription_drugs |-> Get(rx, "drugs", <<>>),
                                 prescription_date |-> rx.timestamp,
                                 days_apart |-> time_diff]
                  IN  IF rest.raised /= None THEN rest
                      ELSE IF InWindow(time_diff)
                           THEN Returned(<<record>> \o rest.value)
                           ELSE rest

\* The outer loop: for symptom in matching_symptoms
RECURSIVE SymptomLoop(_, _)
SymptomLoop(matching_symptoms, prescriptions) ==
    IF matching_symptoms = <<>> THEN Returned(<<>>)
    ELSE LET symptom == Head(matching_symptoms)
         IN  IF TimestampError(symptom) /= None THEN Raised(TimestampError(symptom))
             ELSE LET inner == PrescriptionLoop(symptom, fromisoformat(symptom.timestamp),
                                                prescriptions)
                      rest == SymptomLoop(Tail(matching_symptoms), prescriptions)
                  IN  IF inner.raised /= None THEN inner
                      ELSE IF rest.raised /= None THEN rest
                      ELSE Returned(inner.value \o rest.value)

NoPrescriptionsMessage ==
    <<"No prescription records to correlate">>

KeywordNotFoundMessage(symptom_keyword) ==
    <<"No reports found containing '", symptom_keyword, "'">>

NoCorrelationMessage(symptom_keyword) ==
    <<"No temporal correlation found between '", symptom_keyword, "' and prescriptions">>

\* Mutant: the keyword is looked for before the prescriptions are.
Correlate_KeywordFirst(symptoms, prescriptions, symptom_keyword) ==
    LET matching_symptoms ==
            SelectSeq(symptoms, LAMBDA s : Contains(Lower(symptom_keyword), Lower(s.text)))
    IN  IF matching_symptoms = <<>>
        THEN [correlation_found |-> FALSE, message |-> KeywordNotFoundMessage(symptom_keyword)]
        ELSE IF prescriptions = <<>>
        THEN [correlation_found |-> FALSE, message |-> NoPrescriptionsMessage]
        ELSE [correlation_found |-> FALSE, message |-> NoCorrelationMessage(symptom_keyword)]

\* correlate_with_medications after its two reads (lines 134-180)
Correlate(symptoms, prescriptions, symptom_keyword) ==
    IF prescriptions = <<>>
    THEN [correlation_found |-> FALSE, message |-> NoPrescriptionsMessage]
    ELSE LET matching_symptoms ==
                 SelectSeq(symptoms,
                           LAMBDA s : Contains(Lower(symptom_keyword), Lower(s.text)))
             loop == SymptomLoop(matching_symptoms, prescriptions)
             correlations == loop.value
         IN  IF matching_symptoms = <<>>
             THEN [correlation_found |-> FALSE,
                   message |-> KeywordNotFoundMessage(symptom_keyword)]
             ELSE IF loop.raised /= None
             THEN [raised |-> loop.raised]
             ELSE IF correlations = <<>>
             THEN [correlation_found |-> FALSE,
                   message |-> NoCorrelationMessage(symptom_keyword)]
             ELSE [correlation_found |-> TRUE,
                   correlations |-> correlations,
                   message |-> <<"Found ", Len(correlations),
                                 " temporal correlation(s) between symptom and medication timing">>]

\* PatternAgent.correlate_with_medications
correlate_with_medications(evColl, patient_id, symptom_keyword) ==
    Correlate(get_patient_history(evColl, patient_id, "symptom"),
              get_patient_history(evColl, patient_id, "prescription"),
              symptom_keyword)

(***************************************************************************)
(* MemoryAgent with a client whose call may raise: the try/except of each  *)
(* method.  `fails` says whether the client call of the method raises.     *)
(***************************************************************************)
\* store_event: except -> log, raise
TryStoreEvent(coll, id, event, fails) ==
    IF fails THEN [coll |-> coll, raised |-> "Exception"]
    ELSE [coll |-> store_event(coll, id, event), returned |-> id]

\* store_drug_interaction: except -> log, raise
TryStoreDrugInteraction(coll, id, interaction, fails) ==
    IF fails THEN [coll |-> coll, raised |-> "Exception"]
    ELSE [coll |-> store_drug_interaction(coll, id, interaction), returned |-> id]

\* Mutant: the failure of the delete is raised to the caller.
TryDeleteEvent_Raises(coll, point_id, fails) ==
    IF fails THEN [coll |-> coll, raised |-> "Exception"]
    ELSE [coll |-> delete_event(coll, point_id), returned |-> TRUE]

\* delete_event: except -> log, return False
TryDeleteEvent(coll, point_id, fails) ==
    IF fails THEN [coll |-> coll, returned |-> FALSE]
    ELSE [coll |-> delete_event(coll, point_id), returned |-> TRUE]

\* update_event: except -> log, return False
TryUpdateEvent(coll, point_id, updated_event, fails) ==
    IF fails THEN [coll |-> coll, returned |-> FALSE]
    ELSE [coll |-> update_event(coll, point_id, updated_event), returned |-> TRUE]

\* get_patient_history: except -> log, return []
TryGetPatientHistory(coll, patient_id, event_type, fails) ==
    IF fails THEN <<>> ELSE get_patient_history(coll, patient_id, event_type)

\* get_all_drug_interactions: except -> log, return []
TryGetAllDrugInteractions(coll, fails) ==
    IF fails THEN <<>> ELSE get_all_drug_interactions(coll)

\* Mutant: a failed read is raised out of check_new_medication.
TryCheckNewMedication_Raises(evColl, ixColl, patient_id, new_drug, hFails, xFails) ==
    IF hFails THEN [raised |-> "Exception"]
    ELSE LET current_drugs ==
                 SortedList(UnionDrugs(get_patient_history(evColl, patient_id,
                                                           "prescription")))
         IN  IF current_drugs /= <<>> /\ xFails THEN [raised |-> "Exception"]
             ELSE CheckAgainst(current_drugs, ixColl, new_drug)

\* SafetyAgent.check_new_medication over the reads that may fail: a failed
\* read of the interactions is the read of an empty collection.
TryCheckNewMedication(evColl, ixColl, patient_id, new_drug, hFails, xFails) ==
    LET current_drugs ==
            SortedList(UnionDrugs(TryGetPatientHistory(evColl, patient_id, "prescription",
                                                       hFails)))
    IN  CheckAgainst(current_drugs,
                     IF TryGetAllDrugInteractions(ixColl, xFails) = <<>>
                     THEN <<>> ELSE ixColl,
                     new_drug)

\* Mutant: the loop of bulk_delete_events ends at the first failed delete.
RECURSIVE BulkDeleteLoop_StopOnFailure(_, _, _, _)
BulkDeleteLoop_StopOnFailure(coll, point_ids, fails, results) ==
    IF point_ids = <<>> THEN [coll |-> coll, results |-> results]
    ELSE LET deleted == TryDeleteEvent(coll, Head(point_ids), Head(fails))
         IN  IF deleted.returned
             THEN BulkDeleteLoop_StopOnFailure(
                      deleted.coll, Tail(point_ids), Tail(fails),
                      [results EXCEPT !.success = Append(@, Head(point_ids))])
             ELSE [coll |-> deleted.coll,
                   results |-> [results EXCEPT !.failed = Append(@, Head(point_ids))]]

\* The loop of bulk_delete_events: fails[k] says whether the k-th delete fails.
RECURSIVE BulkDeleteLoop(_, _, _, _)
BulkDeleteLoop(coll, point_ids, fails, results) ==
    IF point_ids = <<>> THEN [coll |-> coll, results |-> results]
    ELSE LET deleted == TryDeleteEvent(coll, Head(point_ids), Head(fails))
         IN  IF deleted.returned
             THEN BulkDeleteLoop(deleted.coll, Tail(point_ids), Tail(fails),
                                 [results EXCEPT !.success = Append(@, Head(point_ids))])
             ELSE BulkDeleteLoop(deleted.coll, Tail(point_ids), Tail(fails),
                                 [results EXCEPT !.failed = Append(@, Head(point_ids))])

\* bulk_delete_events (src/utils/timeline_manager.py)
bulk_delete_events(coll, point_ids, fails) ==
    BulkDeleteLoop(coll, point_ids, fails,
                   [success |-> <<>>, failed |-> <<>>, total |-> Len(point_ids)])

(***************************************************************************)
(* Timeline manager (src/utils/timeline_manager.py)                        *)
(***************************************************************************)
required_fields == <<"patient_id", "event_type", "text", "timestamp">>

\* The first required field the event lacks, None if it has them all.
RECURSIVE FirstMissing(_, _)
FirstMissing(fields, updated_event) ==
    IF fields = <<>> THEN None
    ELSE IF Head(fields) \notin DOMAIN updated_event THEN Head(fields)
    ELSE FirstMissing(Tail(fields), updated_event)

\* Mutant: the event type is compared before the patient id.
validate_event_edit_TypeFirst(original_event, updated_event) ==
    IF FirstMissing(required_fields, updated_event) /= None
    THEN <<FALSE, <<"Missing required field: ",
                    FirstMissing(required_fields, updated_event)>> >>
    ELSE IF Get(original_event, "event_type", None) /= Get(updated_event, "event_type", None)
    THEN <<FALSE, <<"Cannot change event_type during edit">> >>
    ELSE IF Get(original_event, "patient_id", None) /= Get(updated_event, "patient_id", None)
    THEN <<FALSE, <<"Cannot change patient_id during edit">> >>
    ELSE IF Strip(Get(updated_event, "text", <<>>), Whitespace) = <<>>
    THEN <<FALSE, <<"Text cannot be empty">> >>
    ELSE <<TRUE, <<>> >>

\* validate_event_edit: the pair (is_valid, error_message)
validate_event_edit(original_event, updated_event) ==
    IF FirstMissing(required_fields, updated_event) /= None
    THEN <<FALSE, <<"Missing required field: ",
                    FirstMissing(required_fields, updated_event)>> >>
    ELSE IF Get(original_event, "patient_id", None) /= Get(updated_event, "patient_id", None)
    THEN <<FALSE, <<"Cannot change patient_id during edit">> >>
    ELSE IF Get(original_event, "event_type", None) /= Get(updated_event, "event_type", None)
    THEN <<FALSE, <<"Cannot change event_type during edit">> >>
    ELSE IF Strip(Get(updated_event, "text", <<>>), Whitespace) = <<>>
    THEN <<FALSE, <<"Text cannot be empty">> >>
    ELSE <<TRUE, <<>> >>

\* a < b on datetimes
DatetimeLess(a, b) ==
    a.ordinal < b.ordinal \/ (a.ordinal = b.ordinal /\ a.second < b.second)

\* `not date` for an optional string: None and "" are both false.
IsFalsy(date) == date = Null \/ date = <<>>

\* The body of the loop of filter_timeline_by_date_range: whether the event
\* is appended; a ValueError of any fromisoformat skips the event.
KeepsEvent(event, start_date, end_date) ==
    /\ IsIsoFormat(Get(event, "timestamp", <<>>))
    /\ ~IsFalsy(start_date) =>
           /\ IsIsoFormat(start_date)
           /\ ~DatetimeLess(fromisoformat(event.timestamp), fromisoformat(start_date))
    /\ ~IsFalsy(end_date) =>
           /\ IsIsoFormat(end_date)
           /\ ~DatetimeLess(fromisoformat(end_date), fromisoformat(event.timestamp))

\* filter_timeline_by_date_range
filter_timeline_by_date_range(evs, start_date, end_date) ==
    IF IsFalsy(start_date) /\ IsFalsy(end_date)
    THEN evs
    ELSE SelectSeq(evs, LAMBDA event : KeepsEvent(event, start_date, end_date))

(***************************************************************************)
(* The safety checker over the store: inputs                               *)
(***************************************************************************)
MaxEvents == 1

MaxInteractions == 2

Patients == {"p1", "p2"}

\* Drug names: two drugs, one of them also in another letter case and with
\* trailing whitespace (as typed into the text input of the UI).
DrugNames ==
    { <<"W","a","r">>, <<"w","a","r">>, <<"w","a","r"," ">>, <<"a","s","a">> }

RxDrugLists ==
    { <<>>, << <<"w","a","r">> >>, << <<"w","a","r"," ">> >>, << <<"a","s","a">> >>,
      << <<"a","s","a">>, <<"W","a","r">> >> }

Day1 == <<"2","0","2","4","-","0","1","-","0","1">>

Day3 == <<"2","0","2","4","-","0","1","-","0","3">>

\* Events as IngestionAgent builds them (process_prescription, create_manual_event)
PrescriptionEvents ==
    { [patient_id |-> p, event_type |-> "prescription", text |-> <<"R","x">>,
       timestamp |-> Day1, drugs |-> ds] : p \in Patients, ds \in RxDrugLists }

SeverityNames == { <<"m","i","l","d">>, <<"S","e","v","e","r","e">> }

InteractionInputs ==
    { [drug_a |-> a, drug_b |-> b, severity |-> sv, explanation |-> <<"e">>] :
        a \in DrugNames, b \in DrugNames, sv \in SeverityNames }

(***************************************************************************)
(* Spec: store_event, store_drug_interaction, check_new_medication         *)
(***************************************************************************)
Init ==
    /\ events = <<>>
    /\ interactions = <<>>
    /\ nextId = [patient_events |-> 1, drug_interactions |-> 1]
    /\ call = [op |-> "init"]
    /\ result = None
    /\ session = Idle

StoreEvent(event) ==
    /\ events' = store_event(events, nextId.patient_events, event)
    /\ nextId' = [nextId EXCEPT !.patient_events = @ + 1]
    /\ call' = [op |-> "store_event"]
    /\ result' = nextId.patient_events
    /\ UNCHANGED <<interactions, session>>

StoreDrugInteraction(interaction) ==
    /\ Len(interactions) < MaxInteractions
    /\ interactions' = store_drug_interaction(interactions, nextId.drug_interactions,
                                              interaction)
    /\ nextId' = [nextId EXCEPT !.drug_interactions = @ + 1]
    /\ call' = [op |-> "store_drug_interaction"]
    /\ result' = nextId.drug_interactions
    /\ UNCHANGED <<events, session>>

CheckNewMedication(patient_id, new_drug) ==
    /\ call' = [op |-> "check_new_medication", patient_id |-> patient_id,
                new_drug |-> new_drug]
    /\ result' = check_new_medication(events, interactions, patient_id, new_drug)
    /\ UNCHANGED <<events, interactions, nextId, session>>

Next ==
    \/ \E e \in PrescriptionEvents : Len(events) < MaxEvents /\ StoreEvent(e)
    \/ \E i \in InteractionInputs : StoreDrugInteraction(i)
    \/ \E p \in Patients, d \in DrugNames : CheckNewMedication(p, d)

Spec == Init /\ [][Next]_vars

(***************************************************************************)
(* Properties of the safety checker                                        *)
(***************************************************************************)
Checked == call.op = "check_new_medication"

\* The drugs of the patient's prescription events, as a set.
CurrentDrugSet(patient_id) ==
    UNION { Range(events[i].payload.drugs) :
              i \in { j \in DOMAIN events :
                        /\ events[j].payload.patient_id = patient_id
                        /\ events[j].payload.event_type = "prescription" } }

\* The stored interaction records, in storage order.
StoredRecords == [i \in DOMAIN interactions |-> interactions[i].payload]

\* {drug_a, drug_b} = {X, d} for a current drug d, names compared through norm.
AppliesUnder(norm(_), r, X, current) ==
    \E d \in current : {norm(r.drug_a), norm(r.drug_b)} = {norm(X), norm(d)}

Applies(r, X, current) == AppliesUnder(Lower, r, X, current)

\* The interaction collection with drug_a and drug_b of record i exchanged.
SwapAt(coll, i) ==
    [coll EXCEPT ![i].payload = [@ EXCEPT !.drug_a = coll[i].payload.drug_b,
                                          !.drug_b = coll[i].payload.drug_a]]

\* C1: check_new_medication flags an interaction (safe = false) iff a stored
\* record's unordered pair {drug_a, drug_b} equals {X, d} for a current drug d,
\* compared case-insensitively; exchanging drug_a and drug_b of any stored
\* record leaves the verdict unchanged.
C1_UnorderedPairVerdict ==
    Checked =>
        /\ (result.safe = FALSE) <=>
               \E i \in DOMAIN StoredRecords :
                   Applies(StoredRecords[i], call.new_drug,
                           CurrentDrugSet(call.patient_id))
        /\ \A i \in DOMAIN interactions :
               check_new_medication(events, SwapAt(interactions, i),
                                    call.patient_id, call.new_drug).safe = result.safe

\* An interaction stored the other way round (drug_b is the candidate, in
\* another letter case) was flagged.
C1_Witness ==
    /\ Checked
    /\ result.safe = FALSE
    /\ \A i \in DOMAIN StoredRecords :
           /\ Lower(StoredRecords[i].drug_a) /= Lower(call.new_drug)
           /\ StoredRecords[i].drug_b /= call.new_drug

\* C2: with at least one current drug, `interactions` is the sub-sequence of
\* all stored records that apply, in storage order, and safe is false iff that
\* list is non-empty.
C2_AllApplyingInOrder ==
    (Checked /\ CurrentDrugSet(call.patient_id) /= {}) =>
        /\ result.interactions =
               SelectSeq(StoredRecords,
                         LAMBDA r : Applies(r, call.new_drug,
                                            CurrentDrugSet(call.patient_id)))
        /\ (result.safe = FALSE) <=> (result.interactions /= <<>>)

\* Two different stored records apply and both are returned.
C2_Witness ==
    /\ Checked
    /\ Len(result.interactions) = 2
    /\ result.interactions[1] /= result.interactions[2]

NoMedicationsMessage == <<"No current medications on record.">>

\* C4: an empty drug set gives safe = true with 'No current medications on
\* record.' whatever the store holds; a non-empty drug set with no applying
\* interaction gives safe = true with the 'No known interactions ...' message;
\* the two results differ.
C4_NoDataVersusClear ==
    Checked =>
        LET current == CurrentDrugSet(call.patient_id)
            applying == \E i \in DOMAIN StoredRecords :
                            Applies(StoredRecords[i], call.new_drug, current)
        IN  /\ current = {} =>
                /\ result.safe
                /\ result.message = NoMedicationsMessage
                /\ result.current_drugs = <<>>
            /\ (current /= {} /\ ~applying) =>
                /\ result.safe
                /\ result.message /= NoMedicationsMessage
                /\ result.message[1] = "No known interactions found between "
                /\ result.current_drugs /= <<>>
            \* no query on this store answered 'no data' returns what this one did
            /\ (current /= {} /\ ~applying) =>
                \A p \in Patients, d \in DrugNames :
                    CurrentDrugSet(p) = {} =>
                        check_new_medication(events, interactions, p, d) /= result

\* The patient has no drugs while the store holds an interaction for the
\* candidate and another patient has prescriptions.
C4_Witness ==
    /\ Checked
    /\ CurrentDrugSet(call.patient_id) = {}
    /\ \E p \in Patients : CurrentDrugSet(p) /= {}
    /\ \E i \in DOMAIN StoredRecords :
           Lower(StoredRecords[i].drug_a) = Lower(call.new_drug)
    /\ result.message = NoMedicationsMessage

\* helpers.clean_drug_name
clean_drug_name(drug_name) == Lower(Strip(drug_name, Whitespace))

\* C5: names that differ only in letter case or in leading/trailing
\* whitespace are the same drug for check_new_medication: the verdict is the
\* one of the unordered-pair test on lower-cased, trimmed names.
C5_TrimmedComparison ==
    Checked =>
        ((result.safe = FALSE) <=>
            \E i \in DOMAIN StoredRecords :
                AppliesUnder(clean_drug_name, StoredRecords[i], call.new_drug,
                             CurrentDrugSet(call.patient_id)))

(***************************************************************************)
(* SeveritySpec: _get_max_severity on a growing list of applying records   *)
(***************************************************************************)
MaxApplying == 3

Mild == <<"m","i","l","d">>

Moderate == <<"m","o","d","e","r","a","t","e">>

Severe == <<"s","e","v","e","r","e">>

\* The three names, one of them in another letter case, and a name outside
\* the vocabulary.
SeverityValues == { Mild, Moderate, Severe, <<"S","e","v","e","r","e">>, <<"h","i","g","h">> }

\* Applying records: with each severity value, and one without the key.
SeverityRecords ==
    { [drug_a |-> <<"W","a","r">>, drug_b |-> <<"a","s","a">>, severity |-> sv,
       explanation |-> <<"e">>] : sv \in SeverityValues }
    \cup { [drug_a |-> <<"W","a","r">>, drug_b |-> <<"a","s","a">>,
            explanation |-> <<"e">>] }

\* _get_max_severity(L + [r]), L the list of the call before (empty at first);
\* call.before keeps what _get_max_severity(L) returned.
GetMaxSeverity(r) ==
    LET L == IF call.op = "_get_max_severity" THEN call.interactions ELSE <<>>
    IN  /\ Len(L) < MaxApplying
        /\ call' = IF L = <<>>
                    THEN [op |-> "_get_max_severity", interactions |-> <<r>>]
                    ELSE [op |-> "_get_max_severity", interactions |-> Append(L, r),
                          before |-> result]
        /\ result' = _get_max_severity(Append(L, r))
        /\ UNCHANGED <<events, interactions, nextId, session>>

SeverityNext == \E r \in SeverityRecords : GetMaxSeverity(r)

SeveritySpec == Init /\ [][SeverityNext]_vars

\* severe(3) > moderate(2) > mild(1); any other name, or none, ranks 1.
SeverityRank(name) ==
    IF name = Severe THEN 3 ELSE IF name = Moderate THEN 2 ELSE 1

RecordRank(r) ==
    IF "severity" \in DOMAIN r THEN SeverityRank(Lower(r.severity)) ELSE 1

MaxOf(S) == CHOOSE m \in S : \A x \in S : x <= m

Permuted(L, p) == [i \in 1..Len(L) |-> L[p[i]]]

\* C3: for a non-empty list of applying records, max_severity is one of mild,
\* moderate, severe and has the highest rank found in the list, whatever the
\* order of the records; an absent or unknown severity counts as rank 1.
C3_MaxSeverityIsHighestRank ==
    call.op = "_get_max_severity" =>
        LET L == call.interactions
        IN  /\ result \in {Mild, Moderate, Severe}
            /\ SeverityRank(result) = MaxOf({RecordRank(L[i]) : i \in DOMAIN L})
            /\ \A p \in Permutations(DOMAIN L) :
                   _get_max_severity(Permuted(L, p)) = result

\* A list with a record without severity and one with an unknown severity,
\* after a moderate one: the result is moderate.
C3_Witness ==
    /\ call.op = "_get_max_severity"
    /\ Len(call.interactions) = 3
    /\ Get(call.interactions[1], "severity", Mild) = Moderate
    /\ \E i \in 2..3 : "severity" \notin DOMAIN call.interactions[i]
    /\ \E i \in 2..3 : Get(call.interactions[i], "severity", Mild) = <<"h","i","g","h">>
    /\ result = Moderate

\* C6: adding a record to a non-empty list never lowers the rank of the
\* reported maximum severity.
C6_SeverityMonotone ==
    (call.op = "_get_max_severity" /\ "before" \in DOMAIN call) =>
        SeverityRank(result) >= SeverityRank(call.before)

\* A mild record was added to a list whose maximum was severe.
C6_Witness ==
    /\ call.op = "_get_max_severity"
    /\ "before" \in DOMAIN call
    /\ call.before = Severe
    /\ Get(call.interactions[Len(call.interactions)], "severity", <<>>) = Mild
    /\ result = Severe

(***************************************************************************)
(* KeywordSpec: the two keyword extractors on one text                     *)
(***************************************************************************)
MaxPieces == 5

\* Texts are made of these pieces: two words, a capitalised word, a stop word
\* of both extractors, one of extract_keywords_from_text only, a space, a
\* punctuation mark that strip() removes and one it does not.
Pieces ==
    { <<"p","a","i","n">>, <<"A","c","h","e">>, <<"t","h","e">>, <<"h","a","v","e">>, <<"t","h","i","s">>,
      <<" ">>, <<",">>, <<"-">> }

RECURSIVE Concat(_)
Concat(ps) == IF ps = <<>> THEN <<>> ELSE Head(ps) \o Concat(Tail(ps))

KeywordTexts == { Concat(ps) : ps \in UNION { [1..k -> Pieces] : k \in 0..MaxPieces } }

KeywordInit ==
    /\ events = <<>>
    /\ interactions = <<>>
    /\ nextId = [patient_events |-> 1, drug_interactions |-> 1]
    /\ \E text \in KeywordTexts : call = [op |-> "text", text |-> text]
    /\ result = None
    /\ session = Idle

ExtractKeywordsAgent ==
    /\ call.op = "text"
    /\ call' = [op |-> "_extract_keywords", text |-> call.text]
    /\ result' = _extract_keywords(call.text)
    /\ UNCHANGED <<events, interactions, nextId, session>>

ExtractKeywordsHelper(min_length) ==
    /\ call.op = "text"
    /\ call' = [op |-> "extract_keywords_from_text", text |-> call.text,
                min_length |-> min_length]
    /\ result' = extract_keywords_from_text(call.text, min_length)
    /\ UNCHANGED <<events, interactions, nextId, session>>

KeywordNext ==
    \/ ExtractKeywordsAgent
    \/ \E min_length \in {3, 4} : ExtractKeywordsHelper(min_length)

KeywordSpec == KeywordInit /\ [][KeywordNext]_vars

\* C10: PatternAgent._extract_keywords(text) is extract_keywords_from_text(text, 4):
\* no counted keyword is a stop word, shorter than 4 characters, empty, or
\* holds a non-word character.
C10_SameAsKeywordExtractor ==
    call.op = "_extract_keywords" =>
        /\ result = extract_keywords_from_text(call.text, 4)
        /\ \A i \in DOMAIN result :
               /\ result[i] \notin AgentStopWords \cup HelperStopWords
               /\ Len(result[i]) >= 4
               /\ \A j \in DOMAIN result[i] : IsWordChar(result[i][j])

\* The word-character tokens of a text: its maximal runs of \w characters,
\* given by where they start.
TokenStarts(L) ==
    { i \in DOMAIN L : IsWordChar(L[i]) /\ (i = 1 \/ ~IsWordChar(L[i - 1])) }

TokenAt(L, i) ==
    LET j == CHOOSE j \in i..Len(L) :
                 /\ \A k \in i..j : IsWordChar(L[k])
                 /\ j = Len(L) \/ ~IsWordChar(L[j + 1])
    IN  SubSeq(L, i, j)

\* C11: extract_keywords_from_text(text, min_length) is, in input order and with
\* duplicates kept, the sequence of the word-character tokens of the lower-cased
\* text that have at least min_length characters and are not stop words; a text
\* with no word character gives the empty sequence.
C11_KeywordContract ==
    call.op = "extract_keywords_from_text" =>
        LET L == Lower(call.text)
            Q == { i \in TokenStarts(L) :
                       /\ Len(TokenAt(L, i)) >= call.min_length
                       /\ TokenAt(L, i) \notin HelperStopWords }
        IN  /\ Len(result) = Cardinality(Q)
            /\ \A i \in Q :
                   result[Cardinality({ j \in Q : j < i }) + 1] = TokenAt(L, i)
            /\ (\A i \in DOMAIN call.text : ~IsWordChar(call.text[i])) => result = <<>>

\* A text with capitals, punctuation and a stop word, whose keyword comes out twice.
C11_Witness ==
    /\ call.op = "extract_keywords_from_text"
    /\ Len(result) >= 2
    /\ result[1] = result[2]
    /\ call.text /= Lower(call.text)
    /\ \E i \in DOMAIN call.text : call.text[i] = ","
    /\ \E i \in TokenStarts(Lower(call.text)) :
           TokenAt(Lower(call.text), i) \in HelperStopWords

(***************************************************************************)
(* PatternSpec: store_event, detect_recurring_symptoms                     *)
(***************************************************************************)
MaxSymptoms == 3

SymptomTexts ==
    { <<"h","e","a","d","a","c","h","e">>,
      <<"b","a","d"," ","h","e","a","d","a","c","h","e"," ","a","g","a","i","n">>,
      <<"p","a","i","n"," ","p","a","i","n">>,
      <<"P","a","i","n",".">> }

\* Events as IngestionAgent builds them: the symptom reports of p1, a report
\* of p2, and a prescription whose text holds a symptom word.
PatternEvents ==
    { [patient_id |-> "p1", event_type |-> "symptom", text |-> text, timestamp |-> ts,
       drugs |-> <<>>] : text \in SymptomTexts, ts \in {Day1, Day3} }
    \cup { [patient_id |-> "p2", event_type |-> "symptom",
            text |-> <<"p","a","i","n"," ","p","a","i","n">>,
            timestamp |-> Day1, drugs |-> <<>>],
           [patient_id |-> "p1", event_type |-> "prescription",
            text |-> <<"p","a","i","n"," ","p","a","i","n">>,
            timestamp |-> Day1, drugs |-> << <<"a","s","a">> >>] }

DetectRecurringSymptoms(patient_id) ==
    /\ call' = [op |-> "detect_recurring_symptoms", patient_id |-> patient_id,
                extract_calls |-> ExtractCalls(events, patient_id)]
    /\ result' = detect_recurring_symptoms(events, patient_id)
    /\ UNCHANGED <<events, interactions, nextId, session>>

PatternNext ==
    \/ \E e \in PatternEvents : Len(events) < MaxSymptoms /\ StoreEvent(e)
    \/ \E p \in Patients : DetectRecurringSymptoms(p)

PatternSpec == Init /\ [][PatternNext]_vars

Detected == call.op = "detect_recurring_symptoms"

\* The patient's stored symptom events.
SymptomIndexes(patient_id) ==
    { i \in DOMAIN events : /\ events[i].payload.patient_id = patient_id
                            /\ events[i].payload.event_type = "symptom" }

\* What the store holds for the patient: the number of symptom reports, the
\* keywords of the reports, and for each keyword its total number of
\* occurrences and the number of reports it occurs in.
PatternFacts(patient_id) ==
    LET idx == SymptomIndexes(patient_id)
        kws == [i \in idx |-> _extract_keywords(events[i].payload.text)]
        all == UNION { Range(kws[i]) : i \in idx }
        occurrences(i, kw) == Cardinality({ j \in DOMAIN kws[i] : kws[i][j] = kw })
        RECURSIVE sum(_, _)
        sum(S, kw) == IF S = {} THEN 0
                      ELSE LET i == CHOOSE x \in S : TRUE
                           IN  occurrences(i, kw) + sum(S \ {i}, kw)
    IN  [reports |-> Cardinality(idx),
         keywords |-> all,
         total |-> [kw \in all |-> sum(idx, kw)],
         in_reports |-> [kw \in all |-> Cardinality({ i \in idx : kw \in Range(kws[i]) })]]

ReportedPatterns == IF result.has_patterns THEN result.recurring_symptoms ELSE <<>>

ReportedKeywords == { ReportedPatterns[i].symptom_keyword : i \in DOMAIN ReportedPatterns }

\* C7: with at least 2 symptom events, a keyword is in recurring_symptoms iff
\* its total number of occurrences over all events is at least
\* PATTERN_REPEAT_THRESHOLD, and its occurrence_count is that total.
C7_ThresholdInvariant ==
    Detected =>
        LET facts == PatternFacts(call.patient_id)
        IN  facts.reports >= 2 =>
                /\ ReportedKeywords =
                       { kw \in facts.keywords : facts.total[kw] >= PATTERN_REPEAT_THRESHOLD }
                /\ Len(ReportedPatterns) = Cardinality(ReportedKeywords)
                /\ \A i \in DOMAIN ReportedPatterns :
                       ReportedPatterns[i].occurrence_count =
                           facts.total[ReportedPatterns[i].symptom_keyword]

\* One keyword occurs twice and is reported while another occurs once and is not.
C7_Witness ==
    /\ Detected
    /\ LET facts == PatternFacts(call.patient_id)
       IN  /\ \E kw \in ReportedKeywords : facts.total[kw] = 2
           /\ \E kw \in facts.keywords : facts.total[kw] = 1 /\ kw \notin ReportedKeywords

\* C8: a keyword is reported as recurring only if it occurs in at least
\* PATTERN_REPEAT_THRESHOLD distinct symptom reports.
C8_DistinctReports ==
    Detected =>
        LET facts == PatternFacts(call.patient_id)
        IN  \A kw \in ReportedKeywords :
                facts.in_reports[kw] >= PATTERN_REPEAT_THRESHOLD

\* C9: fewer than 2 symptom events give has_patterns = false with the
\* insufficient-data message and no keyword extraction; 2 or more events with
\* no keyword at the threshold give has_patterns = false with the
\* none-detected message; has_patterns = true comes with a non-empty list.
C9_NegativeResults ==
    Detected =>
        LET facts == PatternFacts(call.patient_id)
            none == \A kw \in facts.keywords : facts.total[kw] < PATTERN_REPEAT_THRESHOLD
        IN  /\ facts.reports < 2 =>
                /\ result = [has_patterns |-> FALSE, message |-> InsufficientDataMessage]
                /\ call.extract_calls = 0
            /\ (facts.reports >= 2 /\ none) =>
                result = [has_patterns |-> FALSE, message |-> NoPatternsMessage]
            /\ InsufficientDataMessage /= NoPatternsMessage
            /\ result.has_patterns =>
                /\ "recurring_symptoms" \in DOMAIN result
                /\ result.recurring_symptoms /= <<>>

\* A single report that repeats a keyword: insufficient data, nothing extracted.
C9_Witness ==
    /\ Detected
    /\ LET facts == PatternFacts(call.patient_id)
       IN  /\ facts.reports = 1
           /\ \E kw \in facts.keywords : facts.total[kw] >= 2
    /\ result.message = InsufficientDataMessage
    /\ call.extract_calls = 0


(***************************************************************************)
(* CorrelateSpec: store_event, correlate_with_medications                  *)
(***************************************************************************)
MaxCorrelated == 3

\* Day 0 at 23:00; 7 days later to the second; 7 days and 1 hour later, which
\* is the 8th calendar day after; 8 days later to the second.
Day0Late == <<"2","0","2","4","-","0","2","-","2","5","T","2","3",":","0","0",":","0","0">>

Day7Late == <<"2","0","2","4","-","0","3","-","0","3","T","2","3",":","0","0",":","0","0">>

Day8Early == <<"2","0","2","4","-","0","3","-","0","4","T","0","0",":","0","0",":","0","0">>

Day8Late == <<"2","0","2","4","-","0","3","-","0","4","T","2","3",":","0","0",":","0","0">>

\* A date without a time, and a string that is not a timestamp.
DateOnly == <<"2","0","2","4","-","0","2","-","2","6">>

NotATimestamp == <<"y","e","s","t","e","r","d","a","y">>

Timestamps == {Day0Late, Day7Late, Day8Early, Day8Late, NotATimestamp}

CorrelateSymptomTexts == { <<"D","i","z","z","y">>, <<"p","a","i","n">> }

SymptomKeywords == { <<"D","I","Z">>, <<"p","a","i","n">>, <<"r","a","s","h">> }

\* Events of the store: symptom reports and prescriptions of p1 with each
\* timestamp and without one, and a prescription of p2.
CorrelateEvents ==
    { [patient_id |-> "p1", event_type |-> "symptom", text |-> text, timestamp |-> ts] :
        text \in CorrelateSymptomTexts, ts \in Timestamps }
    \cup { [patient_id |-> "p1", event_type |-> "symptom", text |-> text] :
             text \in CorrelateSymptomTexts }
    \cup { [patient_id |-> "p1", event_type |-> "prescription", text |-> <<"R","x">>,
            timestamp |-> ts, drugs |-> << <<"a","s","a">> >>] :
             ts \in Timestamps \cup {DateOnly} }
    \cup { [patient_id |-> "p1", event_type |-> "prescription", text |-> <<"R","x">>,
            drugs |-> << <<"a","s","a">> >>],
           [patient_id |-> "p2", event_type |-> "prescription", text |-> <<"R","x">>,
            timestamp |-> Day0Late, drugs |-> << <<"w","a","r">> >>] }

CorrelateWithMedications(patient_id, symptom_keyword) ==
    /\ call' = [op |-> "correlate_with_medications", patient_id |-> patient_id,
                symptom_keyword |-> symptom_keyword]
    /\ result' = correlate_with_medications(events, patient_id, symptom_keyword)
    /\ UNCHANGED <<events, interactions, nextId, session>>

CorrelateNext ==
    \/ \E e \in CorrelateEvents : Len(events) < MaxCorrelated /\ StoreEvent(e)
    \/ \E p \in Patients, k \in SymptomKeywords : CorrelateWithMedications(p, k)

CorrelateSpec == Init /\ [][CorrelateNext]_vars

Correlated == call.op = "correlate_with_medications"

\* The stored events of the called patient, by type, and the symptom events
\* whose text holds the keyword in any letter case.
StoredOfType(event_type) ==
    { i \in DOMAIN events : /\ events[i].payload.patient_id = call.patient_id
                            /\ events[i].payload.event_type = event_type }

MatchingStored ==
    { i \in StoredOfType("symptom") :
          Contains(Lower(call.symptom_keyword), Lower(events[i].payload.text)) }

WellFormed(i) ==
    /\ "timestamp" \in DOMAIN events[i].payload
    /\ IsIsoFormat(events[i].payload.timestamp)

\* days_apart of a stored symptom and a stored prescription, as line 159 has it.
DaysApart(i, j) ==
    Abs(TimedeltaDays(fromisoformat(events[i].payload.timestamp),
                      fromisoformat(events[j].payload.timestamp)))

\* The two events are a whole number n of days apart, to the second.
ExactlyDaysApart(i, j, n) ==
    LET a == fromisoformat(events[i].payload.timestamp)
        b == fromisoformat(events[j].payload.timestamp)
    IN  a.second = b.second /\ Abs(a.ordinal - b.ordinal) = n

\* The Correlation record of a stored pair.
RecordOf(i, j, days_apart) ==
    [symptom_text |-> events[i].payload.text,
     symptom_date |-> events[i].payload.timestamp,
     prescription_drugs |-> events[j].payload.drugs,
     prescription_date |-> events[j].payload.timestamp,
     days_apart |-> days_apart]

Reported == IF "correlations" \in DOMAIN result THEN result.correlations ELSE <<>>

Occurrences(seq, x) == Cardinality({ k \in DOMAIN seq : seq[k] = x })

\* C12: when the timestamps parse, the records are, pair by pair, the (matching
\* symptom, prescription) pairs whose days_apart is at most 7: one record for
\* each such pair, none for any other; days_apart is in 0..7; a pair 7 days
\* apart to the second is in, a pair 8 days apart to the second is out.
C12_WindowedCrossProduct ==
    (Correlated /\ "raised" \notin DOMAIN result) =>
        LET pairs == { p \in MatchingStored \X StoredOfType("prescription") :
                           WellFormed(p[1]) /\ WellFormed(p[2]) }
            inWindow == { p \in pairs : DaysApart(p[1], p[2]) <= 7 }
            recordOf(p) == RecordOf(p[1], p[2], DaysApart(p[1], p[2]))
        IN  /\ Len(Reported) = Cardinality(inWindow)
            /\ \A p \in inWindow :
                   Occurrences(Reported, recordOf(p))
                       = Cardinality({ q \in inWindow : recordOf(q) = recordOf(p) })
            /\ \A k \in DOMAIN Reported : Reported[k].days_apart \in 0..7
            /\ \A p \in pairs :
                   /\ ExactlyDaysApart(p[1], p[2], 7) => recordOf(p) \in Range(Reported)
                   /\ ExactlyDaysApart(p[1], p[2], 8) => recordOf(p) \notin Range(Reported)

\* A symptom with a prescription exactly 7 days later, which is reported, and
\* one exactly 8 days later, which is not.
C12_Witness ==
    /\ Correlated
    /\ "raised" \notin DOMAIN result
    /\ Len(Reported) = 1
    /\ Reported[1].days_apart = 7
    /\ \E i \in MatchingStored, j \in StoredOfType("prescription") :
           WellFormed(i) /\ WellFormed(j) /\ ExactlyDaysApart(i, j, 8)

\* The records the inner loop gives for one symptom and one prescription.
PairRecords(symptom, rx) ==
    PrescriptionLoop(symptom, fromisoformat(symptom.timestamp), <<rx>>).value

\* C13: the day difference does not depend on which of the two events is the
\* symptom: for every matching symptom and prescription of the call, exchanging
\* the two timestamps gives the same days_apart and the same in-window verdict.
C13_SymmetricDayDifference ==
    (Correlated /\ "raised" \notin DOMAIN result) =>
        \A i \in MatchingStored, j \in StoredOfType("prescription") :
            (WellFormed(i) /\ WellFormed(j)) =>
                LET symptom == events[i].payload
                    rx == events[j].payload
                    t1 == symptom.timestamp
                    t2 == rx.timestamp
                    exchanged == PairRecords([symptom EXCEPT !.timestamp = t2],
                                             [rx EXCEPT !.timestamp = t1])
                IN  /\ DaysApart(i, j) = DaysApart(j, i)
                    /\ Len(PairRecords(symptom, rx)) = Len(exchanged)

\* The calendar day of a stored event's timestamp.
CalendarDay(i) == fromisoformat(events[i].payload.timestamp).ordinal

\* C14: days_apart of every record is the difference of the two calendar
\* days, and the pairs reported are those whose calendar days are at most 7 apart.
C14_CalendarDayGranularity ==
    (Correlated /\ "raised" \notin DOMAIN result) =>
        LET pairs == { p \in MatchingStored \X StoredOfType("prescription") :
                           WellFormed(p[1]) /\ WellFormed(p[2]) }
            calendarDays(p) == Abs(CalendarDay(p[1]) - CalendarDay(p[2]))
        IN  \A p \in pairs :
                IF calendarDays(p) <= 7
                THEN RecordOf(p[1], p[2], calendarDays(p)) \in Range(Reported)
                ELSE \A k \in DOMAIN Reported :
                         ~ /\ Reported[k].symptom_date = events[p[1]].payload.timestamp
                           /\ Reported[k].prescription_date = events[p[2]].payload.timestamp

\* C15: the negative results in their order: no prescription, then no report
\* with the keyword, then no pair in the window; found only with records; no
\* exception when every timestamp of the patient parses.
C15_NegativePrecedence ==
    Correlated =>
        LET noRx == StoredOfType("prescription") = {}
            noMatch == MatchingStored = {}
        IN  /\ noRx => result = [correlation_found |-> FALSE,
                                 message |-> NoPrescriptionsMessage]
            /\ (~noRx /\ noMatch) =>
                   result = [correlation_found |-> FALSE,
                             message |-> KeywordNotFoundMessage(call.symptom_keyword)]
            /\ (~noRx /\ ~noMatch /\ "raised" \notin DOMAIN result) =>
                   \/ /\ result = [correlation_found |-> FALSE,
                                   message |-> NoCorrelationMessage(call.symptom_keyword)]
                      /\ \A i \in MatchingStored, j \in StoredOfType("prescription") :
                             DaysApart(i, j) > 7
                   \/ /\ result.correlation_found
                      /\ result.correlations /= <<>>
            /\ "raised" \in DOMAIN result =>
                   \E i \in MatchingStored \cup StoredOfType("prescription") : ~WellFormed(i)
            /\ NoPrescriptionsMessage /= KeywordNotFoundMessage(call.symptom_keyword)
            /\ NoCorrelationMessage(call.symptom_keyword)
                   \notin {NoPrescriptionsMessage, KeywordNotFoundMessage(call.symptom_keyword)}

\* No prescription and no report with the keyword, with a report stored: the
\* answer is the one about prescriptions.
C15_Witness ==
    /\ Correlated
    /\ StoredOfType("prescription") = {}
    /\ StoredOfType("symptom") /= {}
    /\ MatchingStored = {}
    /\ result.message = NoPrescriptionsMessage

\* The events of a history whose timestamp parses.
WellFormedOnly(evs) ==
    SelectSeq(evs, LAMBDA e : "timestamp" \in DOMAIN e /\ IsIsoFormat(e.timestamp))

\* C16: an event whose timestamp is missing or does not parse is left out of
\* the windowed comparison: with a prescription and a matching report on
\* record the call raises nothing and returns the records of the other pairs.
C16_MalformedTimestampExcluded ==
    (Correlated /\ MatchingStored /= {} /\ StoredOfType("prescription") /= {}) =>
        LET matching ==
                SelectSeq(get_patient_history(events, call.patient_id, "symptom"),
                          LAMBDA s : Contains(Lower(call.symptom_keyword), Lower(s.text)))
            prescriptions == get_patient_history(events, call.patient_id, "prescription")
        IN  /\ "raised" \notin DOMAIN result
            /\ Reported = SymptomLoop(WellFormedOnly(matching),
                                      WellFormedOnly(prescriptions)).value

(***************************************************************************)
(* DetailsSpec: store_drug_interaction, get_all_drug_interactions,         *)
(* get_interaction_details                                                 *)
(***************************************************************************)
MaxStored == 2

DetailDrugNames == { <<"W","a","r">>, <<"w","a","r">>, <<"a","s","a">> }

\* The interactions handed to store_drug_interaction: with an explanation,
\* with an explanation of None, with the legacy description only, with neither.
DetailInputs ==
    { [drug_a |-> a, drug_b |-> b, severity |-> <<"m","i","l","d">>, explanation |-> ex] :
        a \in DetailDrugNames, b \in DetailDrugNames, ex \in { <<"e">>, Null } }
    \cup { [drug_a |-> a, drug_b |-> b, severity |-> <<"m","i","l","d">>,
            description |-> <<"d">>] : a \in DetailDrugNames, b \in DetailDrugNames }
    \cup { [drug_a |-> a, drug_b |-> b, severity |-> <<"m","i","l","d">>] :
             a \in DetailDrugNames, b \in DetailDrugNames }

StoreDetail(interaction) ==
    /\ Len(interactions) < MaxStored
    /\ interactions' = store_drug_interaction(interactions, nextId.drug_interactions,
                                              interaction)
    /\ nextId' = [nextId EXCEPT !.drug_interactions = @ + 1]
    /\ call' = [op |-> "store_drug_interaction", interaction |-> interaction]
    /\ result' = nextId.drug_interactions
    /\ UNCHANGED <<events, session>>

GetAllDrugInteractions ==
    /\ call' = [op |-> "get_all_drug_interactions"]
    /\ result' = get_all_drug_interactions(interactions)
    /\ UNCHANGED <<events, interactions, nextId, session>>

GetInteractionDetails(drug_a, drug_b) ==
    /\ call' = [op |-> "get_interaction_details", drug_a |-> drug_a, drug_b |-> drug_b]
    /\ result' = get_interaction_details(interactions, drug_a, drug_b)
    /\ UNCHANGED <<events, interactions, nextId, session>>

DetailsNext ==
    \/ \E i \in DetailInputs : StoreDetail(i)
    \/ GetAllDrugInteractions
    \/ \E a \in DetailDrugNames, b \in DetailDrugNames : GetInteractionDetails(a, b)

DetailsSpec == Init /\ [][DetailsNext]_vars

\* The stored records whose lower-cased pair is the lower-cased pair asked for.
PairMatches(drug_a, drug_b) ==
    { i \in DOMAIN interactions :
          {Lower(interactions[i].payload.drug_a), Lower(interactions[i].payload.drug_b)}
              = {Lower(drug_a), Lower(drug_b)} }

\* C17: get_interaction_details(a, b) returns the first stored record whose
\* pair {drug_a, drug_b} is {a, b} in any letter case, None exactly when there
\* is none, and the same for (b, a).
C17_UnorderedPairLookup ==
    call.op = "get_interaction_details" =>
        LET M == PairMatches(call.drug_a, call.drug_b)
            first == CHOOSE i \in M : \A j \in M : i <= j
        IN  /\ (M = {}) <=> (result = NoneDict)
            /\ M /= {} => result = get_all_drug_interactions(interactions)[first]
            /\ result = get_interaction_details(interactions, call.drug_b, call.drug_a)

\* Two stored records of the pair, the first in the other order and letter
\* case than asked for: the first is returned.
C17_Witness ==
    /\ call.op = "get_interaction_details"
    /\ call.drug_a /= call.drug_b
    /\ Lower(call.drug_a) /= Lower(call.drug_b)
    /\ Cardinality(PairMatches(call.drug_a, call.drug_b)) = 2
    /\ interactions[1].payload.drug_a /= interactions[2].payload.drug_a
    /\ interactions[1].payload.drug_b = <<"W","a","r">>
    /\ call.drug_a = <<"w","a","r">>
    /\ result.drug_a = interactions[1].payload.drug_a
    /\ result.drug_b = interactions[1].payload.drug_b

\* C18: every record get_all_drug_interactions returns has an explanation that
\* is a string: the stored explanation, else the stored description, else "".
C18_ExplanationNeverNull ==
    call.op = "get_all_drug_interactions" =>
        /\ Len(result) = Len(interactions)
        /\ \A k \in DOMAIN result :
               LET stored == interactions[k].payload
               IN  /\ "explanation" \in DOMAIN result[k]
                   /\ result[k].explanation /= Null
                   /\ result[k].explanation \in
                          { Get(stored, "explanation", <<>>),
                            Get(stored, "description", <<>>), <<>> }

(***************************************************************************)
(* ConcurrentSpec: a caller of correlate_with_medications or of            *)
(* check_new_medication, read by read, while other callers store, edit and *)
(* delete events                                                           *)
(***************************************************************************)
MaxConcurrent == 2

\* The number of writes of other callers while one call is under way.
MaxWrites == 2

\* The events the other callers write: a report and two prescriptions of p1.
ConcurrentEvents ==
    { [patient_id |-> "p1", event_type |-> "symptom", text |-> <<"p","a","i","n">>,
       timestamp |-> Day0Late],
      [patient_id |-> "p1", event_type |-> "prescription", text |-> <<"R","x">>,
       timestamp |-> Day7Late, drugs |-> << <<"a","s","a">> >>],
      [patient_id |-> "p1", event_type |-> "prescription", text |-> <<"R","x">>,
       timestamp |-> Day7Late, drugs |-> << <<"w","a","r">> >>] }

\* The interaction knowledge base is ingested before the callers start.
ConcurrentInit ==
    /\ events = <<>>
    /\ interactions =
           store_drug_interaction(<<>>, 1,
               [drug_a |-> <<"a","s","a">>, drug_b |-> <<"w","a","r">>,
                severity |-> <<"s","e","v","e","r","e">>, explanation |-> <<"e">>])
    /\ nextId = [patient_events |-> 1, drug_interactions |-> 2]
    /\ call = [op |-> "init"]
    /\ result = None
    /\ session = Idle

\* The states of the store that existed during the call under way.
Seen(evColl) ==
    IF session.pc = "idle" THEN session
    ELSE [session EXCEPT !.seen = @ \cup {evColl}, !.writes = @ + 1]

\* Another caller may write.
MayWrite == IF session.pc = "idle" THEN TRUE ELSE session.writes < MaxWrites

\* correlate_with_medications is entered (line 122).
BeginCorrelate(patient_id, symptom_keyword) ==
    /\ session = Idle
    /\ session' = [pc |-> "read_symptoms", patient_id |-> patient_id,
                   symptom_keyword |-> symptom_keyword, symptoms |-> <<>>,
                   seen |-> {events}, writes |-> 0]
    /\ call' = [op |-> "begin"]
    /\ result' = None
    /\ UNCHANGED <<events, interactions, nextId>>

\* symptoms = self.memory.get_patient_history(..., "symptom") (lines 124-127)
ReadSymptoms ==
    /\ session.pc = "read_symptoms"
    /\ session' = [session EXCEPT
                       !.pc = "read_prescriptions",
                       !.symptoms = get_patient_history(events, session.patient_id,
                                                        "symptom")]
    /\ UNCHANGED <<events, interactions, nextId, call, result>>

\* prescriptions = self.memory.get_patient_history(..., "prescription") and
\* the rest of the call (lines 129-180)
ReadPrescriptions ==
    /\ session.pc = "read_prescriptions"
    /\ call' = [op |-> "correlate_with_medications", patient_id |-> session.patient_id,
                symptom_keyword |-> session.symptom_keyword, seen |-> session.seen]
    /\ result' = Correlate(session.symptoms,
                           get_patient_history(events, session.patient_id, "prescription"),
                           session.symptom_keyword)
    /\ session' = Idle
    /\ UNCHANGED <<events, interactions, nextId>>

\* check_new_medication is entered (line 46).
BeginCheck(patient_id, new_drug) ==
    /\ session = Idle
    /\ session' = [pc |-> "read_medications", patient_id |-> patient_id,
                   new_drug |-> new_drug, current_drugs |-> <<>>, seen |-> {events}, writes |-> 0]
    /\ call' = [op |-> "begin"]
    /\ result' = None
    /\ UNCHANGED <<events, interactions, nextId>>

\* current_drugs = self._get_patient_medications(patient_id), and the early
\* return for an empty list (lines 49-60)
ReadMedications ==
    /\ session.pc = "read_medications"
    /\ LET current_drugs == _get_patient_medications(events, session.patient_id)
       IN  IF current_drugs = <<>>
           THEN /\ call' = [op |-> "check_new_medication",
                            patient_id |-> session.patient_id,
                            new_drug |-> session.new_drug, seen |-> session.seen]
                /\ result' = CheckAgainst(<<>>, interactions, session.new_drug)
                /\ session' = Idle
           ELSE /\ session' = [session EXCEPT !.pc = "read_interactions",
                                              !.current_drugs = current_drugs]
                /\ UNCHANGED <<call, result>>
    /\ UNCHANGED <<events, interactions, nextId>>

\* _find_interactions reads get_all_drug_interactions (line 118), and the
\* rest of the call (lines 63-80)
ReadInteractions ==
    /\ session.pc = "read_interactions"
    /\ call' = [op |-> "check_new_medication", patient_id |-> session.patient_id,
                new_drug |-> session.new_drug, seen |-> session.seen]
    /\ result' = CheckAgainst(session.current_drugs, interactions, session.new_drug)
    /\ session' = Idle
    /\ UNCHANGED <<events, interactions, nextId>>

\* Another caller's store_event
ConcurrentStoreEvent(event) ==
    /\ MayWrite
    /\ nextId.patient_events <= MaxConcurrent
    /\ events' = store_event(events, nextId.patient_events, event)
    /\ nextId' = [nextId EXCEPT !.patient_events = @ + 1]
    /\ session' = Seen(events')
    /\ UNCHANGED <<interactions, call, result>>

\* Another caller's delete_event of a stored event
ConcurrentDeleteEvent(point_id) ==
    /\ MayWrite
    /\ \E i \in DOMAIN events : events[i].id = point_id
    /\ events' = delete_event(events, point_id)
    /\ session' = Seen(events')
    /\ UNCHANGED <<interactions, nextId, call, result>>

\* Another caller's update_event of a stored event
ConcurrentUpdateEvent(point_id, updated_event) ==
    /\ MayWrite
    /\ \E i \in DOMAIN events : events[i].id = point_id
    /\ events' = update_event(events, point_id, updated_event)
    /\ session' = Seen(events')
    /\ UNCHANGED <<interactions, nextId, call, result>>

ConcurrentNext ==
    \/ BeginCorrelate("p1", <<"p","a","i","n">>)
    \/ ReadSymptoms
    \/ ReadPrescriptions
    \/ BeginCheck("p1", <<"w","a","r">>)
    \/ ReadMedications
    \/ ReadInteractions
    \/ \E e \in ConcurrentEvents : ConcurrentStoreEvent(e)
    \/ \E id \in 1..MaxConcurrent : ConcurrentDeleteEvent(id)
    \/ \E id \in 1..MaxConcurrent, e \in ConcurrentEvents : ConcurrentUpdateEvent(id, e)

ConcurrentSpec == ConcurrentInit /\ [][ConcurrentNext]_vars

\* C19: the result of a call is the result on one state of the store that
\* existed during the call.
C19_SnapshotResult ==
    /\ (call.op = "correlate_with_medications" /\ "seen" \in DOMAIN call) =>
           \E evColl \in call.seen :
               result = correlate_with_medications(evColl, call.patient_id,
                                                   call.symptom_keyword)
    /\ (call.op = "check_new_medication" /\ "seen" \in DOMAIN call) =>
           \E evColl \in call.seen :
               result = check_new_medication(evColl, interactions, call.patient_id,
                                             call.new_drug)

\* The part of C19 about check_new_medication alone: it reads the events once,
\* and the interactions are not what the other callers write.
CheckNewMedicationSnapshot ==
    (call.op = "check_new_medication" /\ "seen" \in DOMAIN call) =>
        \E evColl \in call.seen :
            result = check_new_medication(evColl, interactions, call.patient_id,
                                          call.new_drug)

(***************************************************************************)
(* EditSpec: store_event, delete_event and the Save handler of the         *)
(* timeline edit form (src/ui/app.py), which calls update_event            *)
(***************************************************************************)
MaxEdited == 2

EditEvents ==
    { [patient_id |-> "p1", event_type |-> "symptom", text |-> text, timestamp |-> ts] :
        text \in CorrelateSymptomTexts, ts \in {Day0Late, Day7Late} }

EditedTexts == { <<"p","a","i","n">>, <<"r","a","s","h">> }

\* The ids of the stored events.
StoredIds(evColl) == { evColl[i].id : i \in DOMAIN evColl }

\* delete_event on a timeline card, from any session
DeleteEvent(point_id) ==
    /\ events' = delete_event(events, point_id)
    /\ call' = [op |-> "delete_event", point_id |-> point_id]
    /\ result' = TRUE
    /\ UNCHANGED <<interactions, nextId, session>>

\* The Save button is pressed: the script reads the history (line 108) and
\* comes to the card of the event (lines 117-161).
PressSave(patient_id, point_id) ==
    /\ session = Idle
    /\ LET history == get_patient_history(events, patient_id, None)
       IN  \E idx \in DOMAIN history :
               /\ history[idx].point_id = point_id
               /\ session' = [pc |-> "save", point_id |-> point_id, event |-> history[idx]]
    /\ call' = [op |-> "get_patient_history", patient_id |-> patient_id]
    /\ result' = None
    /\ UNCHANGED <<events, interactions, nextId>>

\* updated_event = event.copy(); updated_event["text"] = new_text;
\* updated_event.pop("point_id"); update_event(point_id, updated_event)
\* (lines 162-166)
SaveEdit(new_text) ==
    /\ session.pc = "save"
    /\ LET edited == [session.event EXCEPT !.text = new_text]
           updated_event == [k \in DOMAIN edited \ {"point_id"} |-> edited[k]]
       IN  /\ events' = update_event(events, session.point_id, updated_event)
           /\ call' = [op |-> "update_event", point_id |-> session.point_id,
                       updated_event |-> updated_event, stored_before |-> StoredIds(events)]
    /\ result' = TRUE
    /\ session' = Idle
    /\ UNCHANGED <<interactions, nextId>>

EditNext ==
    \/ \E e \in EditEvents : nextId.patient_events <= MaxEdited /\ StoreEvent(e)
    \/ \E id \in 1..MaxEdited : DeleteEvent(id)
    \/ \E id \in 1..MaxEdited : PressSave("p1", id)
    \/ \E text \in EditedTexts : SaveEdit(text)

EditSpec == Init /\ [][EditNext]_vars

\* C20: update_event leaves the set of stored ids as it was, and the event
\* with the id holds the new payload and its embedding; no event appears.
C20_EditKeepsIdentity ==
    call.op = "update_event" =>
        /\ StoredIds(events) = call.stored_before
        /\ \A i \in DOMAIN events :
               events[i].id = call.point_id =>
                   /\ events[i].payload = call.updated_event
                   /\ events[i].vector = encode(call.updated_event.text)

(***************************************************************************)
(* PatternSpec: the dates and reports of a recurring pattern               *)
(***************************************************************************)
\* C27: in every pattern returned, dates and reports have one entry for each
\* symptom event of the history whose extracted keywords hold the pattern's
\* keyword, for no other event, in the order of the history, and dates[i] and
\* reports[i] come from the same event.
C27_DatesAndReports ==
    (Detected /\ result.has_patterns) =>
        LET history == get_patient_history(events, call.patient_id, "symptom")
        IN  \A n \in DOMAIN result.recurring_symptoms :
                LET pattern == result.recurring_symptoms[n]
                    sources == { i \in DOMAIN history :
                                     pattern.symptom_keyword
                                         \in Range(_extract_keywords(history[i].text)) }
                    source(k) == CHOOSE i \in sources :
                                     Cardinality({ j \in sources : j < i }) = k - 1
                IN  /\ Len(pattern.dates) = Len(pattern.reports)
                    /\ Len(pattern.dates) = Cardinality(sources)
                    /\ \A k \in 1..Cardinality(sources) :
                           /\ pattern.dates[k] = history[source(k)].timestamp
                           /\ pattern.reports[k] = history[source(k)].text

\* A pattern with two reports of different dates and texts, the newer first,
\* and a third report of the patient that does not hold the keyword.
C27_Witness ==
    /\ Detected
    /\ result.has_patterns
    /\ \E n \in DOMAIN result.recurring_symptoms :
           LET pattern == result.recurring_symptoms[n]
           IN  /\ Len(pattern.dates) = 2
               /\ pattern.dates = <<Day3, Day1>>
               /\ pattern.reports[1] /= pattern.reports[2]
               /\ Cardinality(SymptomIndexes(call.patient_id)) = 3

(***************************************************************************)
(* ValidateSpec: validate_event_edit on an original and an edited event    *)
(***************************************************************************)
\* A dict with the key and one of the values, or without the key.
Optional(key, values) == { key :> v : v \in values } \cup { <<>> }

OriginalEvents ==
    { a @@ b @@ [text |-> <<"p","a","i","n">>, timestamp |-> Day1] :
        a \in Optional("patient_id", {"p1"}),
        b \in Optional("event_type", {"symptom"}) }

\* Edited events: each required field present or not, the patient and the
\* type the same or changed, the text a word, blank or empty.
UpdatedEvents ==
    { a @@ b @@ c @@ d :
        a \in Optional("patient_id", {"p1", "p2"}),
        b \in Optional("event_type", {"symptom", "prescription"}),
        c \in Optional("text", { <<"p","a","i","n">>, <<" ">>, <<>> }),
        d \in Optional("timestamp", {Day1}) }

ValidateInit ==
    /\ events = <<>>
    /\ interactions = <<>>
    /\ nextId = [patient_events |-> 1, drug_interactions |-> 1]
    /\ \E o \in OriginalEvents, u \in UpdatedEvents :
           call = [op |-> "edit", original_event |-> o, updated_event |-> u]
    /\ result = None
    /\ session = Idle

ValidateEventEdit ==
    /\ call.op = "edit"
    /\ call' = [call EXCEPT !.op = "validate_event_edit"]
    /\ result' = validate_event_edit(call.original_event, call.updated_event)
    /\ UNCHANGED <<events, interactions, nextId, session>>

ValidateNext == ValidateEventEdit

ValidateSpec == ValidateInit /\ [][ValidateNext]_vars

\* C25: an edit is accepted, with an empty message, exactly when the edited
\* event has the four required fields, the patient id and event type of the
\* original, and a text that is not blank; otherwise it is rejected with a
\* message: a missing field first, then a changed patient id, then a changed
\* event type.
C25_ValidEdit ==
    call.op = "validate_event_edit" =>
        LET o == call.original_event
            u == call.updated_event
            complete == \A k \in DOMAIN required_fields : required_fields[k] \in DOMAIN u
            samePatient == "patient_id" \in DOMAIN o /\ o.patient_id = u.patient_id
            sameType == "event_type" \in DOMAIN o /\ o.event_type = u.event_type
            blank == \A i \in DOMAIN u.text : u.text[i] \in Whitespace
        IN  /\ result[1] <=> (complete /\ samePatient /\ sameType /\ ~blank)
            /\ result[1] => result[2] = <<>>
            /\ ~complete => result[2][1] = "Missing required field: "
            /\ (complete /\ ~samePatient) =>
                   result[2] = <<"Cannot change patient_id during edit">>
            /\ (complete /\ samePatient /\ ~sameType) =>
                   result[2] = <<"Cannot change event_type during edit">>
            /\ ~result[1] => result[2] /= <<>>

\* An edit that lacks nothing but changes both the patient and the type: the
\* message is the one about the patient.
C25_Witness ==
    /\ call.op = "validate_event_edit"
    /\ \A k \in DOMAIN required_fields : required_fields[k] \in DOMAIN call.updated_event
    /\ "patient_id" \in DOMAIN call.original_event
    /\ "event_type" \in DOMAIN call.original_event
    /\ call.original_event.patient_id /= call.updated_event.patient_id
    /\ call.original_event.event_type /= call.updated_event.event_type
    /\ result = <<FALSE, <<"Cannot change patient_id during edit">> >>

(***************************************************************************)
(* FilterSpec: filter_timeline_by_date_range on a list of events           *)
(***************************************************************************)
MaxFiltered == 3

\* Events with a timestamp before, at and after the bounds, with a string
\* that is no timestamp, and without a timestamp.
FilterEvents ==
    { [text |-> <<"p","a","i","n">>, timestamp |-> ts] :
        ts \in {Day0Late, Day7Late, Day8Late, NotATimestamp} }
    \cup { [text |-> <<"p","a","i","n">>] }

\* The bounds: absent (None, ""), a timestamp, a date.
FilterBounds == { Null, <<>>, Day7Late, DateOnly }

FilterInit ==
    /\ events = <<>>
    /\ interactions = <<>>
    /\ nextId = [patient_events |-> 1, drug_interactions |-> 1]
    /\ \E n \in 0..MaxFiltered :
           \E evs \in [1..n -> FilterEvents], start_date \in FilterBounds,
              end_date \in FilterBounds :
               call = [op |-> "timeline", events |-> evs, start_date |-> start_date,
                       end_date |-> end_date]
    /\ result = None
    /\ session = Idle

FilterTimelineByDateRange ==
    /\ call.op = "timeline"
    /\ call' = [call EXCEPT !.op = "filter_timeline_by_date_range"]
    /\ result' = filter_timeline_by_date_range(call.events, call.start_date, call.end_date)
    /\ UNCHANGED <<events, interactions, nextId, session>>

FilterNext == FilterTimelineByDateRange

FilterSpec == FilterInit /\ [][FilterNext]_vars

\* C26: the result is the events, in input order, whose timestamp parses and
\* lies between the bounds, an absent bound being no bound; an event whose
\* timestamp is missing or does not parse is not in the result.
C26_ParsableInRange ==
    call.op = "filter_timeline_by_date_range" =>
        LET inRange(event) ==
                /\ "timestamp" \in DOMAIN event
                /\ IsIsoFormat(event.timestamp)
                /\ IsFalsy(call.start_date)
                       \/ ~DatetimeLess(fromisoformat(event.timestamp),
                                        fromisoformat(call.start_date))
                /\ IsFalsy(call.end_date)
                       \/ ~DatetimeLess(fromisoformat(call.end_date),
                                        fromisoformat(event.timestamp))
        IN  /\ result = SelectSeq(call.events, inRange)
            /\ \A k \in DOMAIN result :
                   "timestamp" \in DOMAIN result[k] /\ IsIsoFormat(result[k].timestamp)

(***************************************************************************)
(* FailureSpec: the MemoryAgent methods, check_new_medication and          *)
(* bulk_delete_events when a call of the Qdrant client may raise           *)
(***************************************************************************)
MaxFailing == 2

FailingEvents ==
    { [patient_id |-> "p1", event_type |-> "prescription", text |-> <<"R","x">>,
       timestamp |-> Day1, drugs |-> << <<"a","s","a">> >>],
      [patient_id |-> "p1", event_type |-> "symptom", text |-> <<"p","a","i","n">>,
       timestamp |-> Day3] }

FailingInteraction ==
    [drug_a |-> <<"a","s","a">>, drug_b |-> <<"w","a","r">>,
     severity |-> <<"S","e","v","e","r","e">>, explanation |-> <<"e">>]

FailingNewDrugs == { <<"w","a","r">>, <<"a","s","a">> }

\* The lists of ids handed to bulk_delete_events, an id possibly twice.
RECURSIVE SeqsUpTo(_, _)
SeqsUpTo(S, n) ==
    IF n = 0 THEN { <<>> }
    ELSE LET shorter == SeqsUpTo(S, n - 1)
         IN  shorter \cup { Append(s, x) : s \in shorter, x \in S }

FailingStoreEvent(event, fails) ==
    /\ nextId.patient_events <= MaxFailing
    /\ LET stored == TryStoreEvent(events, nextId.patient_events, event, fails)
       IN  /\ events' = stored.coll
           /\ result' = [k \in DOMAIN stored \ {"coll"} |-> stored[k]]
    /\ nextId' = IF fails THEN nextId ELSE [nextId EXCEPT !.patient_events = @ + 1]
    /\ call' = [op |-> "store_event", fails |-> fails, events |-> events,
                interactions |-> interactions]
    /\ UNCHANGED <<interactions, session>>

FailingStoreDrugInteraction(interaction, fails) ==
    /\ nextId.drug_interactions <= 1
    /\ LET stored == TryStoreDrugInteraction(interactions, nextId.drug_interactions,
                                             interaction, fails)
       IN  /\ interactions' = stored.coll
           /\ result' = [k \in DOMAIN stored \ {"coll"} |-> stored[k]]
    /\ nextId' = IF fails THEN nextId ELSE [nextId EXCEPT !.drug_interactions = @ + 1]
    /\ call' = [op |-> "store_drug_interaction", fails |-> fails, events |-> events,
                interactions |-> interactions]
    /\ UNCHANGED <<events, session>>

FailingDeleteEvent(point_id, fails) ==
    /\ LET deleted == TryDeleteEvent(events, point_id, fails)
       IN  /\ events' = deleted.coll
           /\ result' = [k \in DOMAIN deleted \ {"coll"} |-> deleted[k]]
    /\ call' = [op |-> "delete_event", fails |-> fails, events |-> events,
                interactions |-> interactions, point_id |-> point_id]
    /\ UNCHANGED <<interactions, nextId, session>>

FailingUpdateEvent(point_id, updated_event, fails) ==
    /\ LET updated == TryUpdateEvent(events, point_id, updated_event, fails)
       IN  /\ events' = updated.coll
           /\ result' = [k \in DOMAIN updated \ {"coll"} |-> updated[k]]
    /\ call' = [op |-> "update_event", fails |-> fails, events |-> events,
                interactions |-> interactions, point_id |-> point_id]
    /\ UNCHANGED <<interactions, nextId, session>>

FailingCheckNewMedication(new_drug, historyFails, interactionsFail) ==
    /\ call' = [op |-> "check_new_medication", new_drug |-> new_drug,
                historyFails |-> historyFails, interactionsFail |-> interactionsFail]
    /\ result' = TryCheckNewMedication(events, interactions, "p1", new_drug,
                                       historyFails, interactionsFail)
    /\ UNCHANGED <<events, interactions, nextId, session>>

FailingBulkDeleteEvents(point_ids, fails) ==
    /\ LET deleted == bulk_delete_events(events, point_ids, fails)
       IN  /\ events' = deleted.coll
           /\ result' = deleted.results
    /\ call' = [op |-> "bulk_delete_events", point_ids |-> point_ids, fails |-> fails,
                events |-> events]
    /\ UNCHANGED <<interactions, nextId, session>>

FailureNext ==
    \/ \E e \in FailingEvents, fails \in BOOLEAN : FailingStoreEvent(e, fails)
    \/ \E fails \in BOOLEAN : FailingStoreDrugInteraction(FailingInteraction, fails)
    \/ \E id \in 1..MaxFailing, fails \in BOOLEAN : FailingDeleteEvent(id, fails)
    \/ \E id \in 1..MaxFailing, e \in FailingEvents, fails \in BOOLEAN :
           FailingUpdateEvent(id, e, fails)
    \/ \E d \in FailingNewDrugs, hf \in BOOLEAN, xf \in BOOLEAN :
           FailingCheckNewMedication(d, hf, xf)
    \/ \E point_ids \in SeqsUpTo(1..MaxFailing, MaxFailing) :
           \E fails \in [DOMAIN point_ids -> BOOLEAN] :
               FailingBulkDeleteEvents(point_ids, fails)

FailureSpec == Init /\ [][FailureNext]_vars

WriteOps == {"store_event", "store_drug_interaction", "delete_event", "update_event"}

FailedWrite == call.op \in WriteOps /\ call.fails

C21_RaisedWitness ==
    call.op = "store_event" /\ call.fails /\ "raised" \in DOMAIN result

\* C22: a failed read is an empty result: when the read of the history
\* fails, check_new_medication returns safe = true with "No current
\* medications on record."; when the read of the interactions fails (and the
\* patient has current drugs) it returns safe = true with "No known
\* interactions found."; each result is the one over a store where the
\* collection that could not be read is empty.
C22_FailedReadIsEmpty ==
    call.op = "check_new_medication" =>
        /\ "raised" \notin DOMAIN result
        /\ result = check_new_medication(
                        IF call.historyFails THEN <<>> ELSE events,
                        IF call.interactionsFail THEN <<>> ELSE interactions,
                        "p1", call.new_drug)
        /\ call.historyFails =>
               /\ result.safe = TRUE
               /\ result.message = NoMedicationsMessage
        /\ call.interactionsFail =>
               /\ result.safe = TRUE
               /\ result.interactions = <<>>
        /\ (call.interactionsFail /\ ~call.historyFails
               /\ get_patient_history(events, "p1", "prescription") /= <<>>)
               => result.message[1] = "No known interactions found between "

\* The patient takes asa, the interaction asa/war is stored, war is checked:
\* without the failure the result is safe = false.
C22_Witness ==
    /\ call.op = "check_new_medication"
    /\ call.historyFails \/ call.interactionsFail
    /\ check_new_medication(events, interactions, "p1", call.new_drug).safe = FALSE
    /\ result.safe = TRUE

\* C22, both failures seen apart.
C22_InteractionsWitness ==
    /\ call.op = "check_new_medication"
    /\ call.interactionsFail /\ ~call.historyFails
    /\ check_new_medication(events, interactions, "p1", call.new_drug).safe = FALSE
    /\ result.safe = TRUE /\ result.message[1] = "No known interactions found between "

RECURSIVE Subsequence(_, _)
\* The elements of s at the indices where keep holds, in order.
Subsequence(s, keep) ==
    IF s = <<>> THEN <<>>
    ELSE IF Head(keep) THEN <<Head(s)>> \o Subsequence(Tail(s), Tail(keep))
         ELSE Subsequence(Tail(s), Tail(keep))

\* C29: bulk_delete_events attempts every id, in order, whatever the
\* outcome of the earlier ones: success holds the ids whose delete returned
\* True, failed the ids whose delete returned False, each in the order of
\* the argument; total is the length of the argument; the events left are
\* those whose id is not in success.
C29_BulkDelete ==
    call.op = "bulk_delete_events" =>
        /\ result.total = Len(call.point_ids)
        /\ result.success = Subsequence(call.point_ids, [k \in DOMAIN call.fails |-> ~call.fails[k]])
        /\ result.failed = Subsequence(call.point_ids, call.fails)
        /\ Len(result.success) + Len(result.failed) = result.total
        /\ events = SelectSeq(call.events,
                              LAMBDA point : \A k \in DOMAIN result.success :
                                                 result.success[k] /= point.id)

\* The first delete fails and the second, of a stored event, succeeds.
C29_Witness ==
    /\ call.op = "bulk_delete_events"
    /\ Len(call.point_ids) = 2
    /\ call.fails[1] /\ ~call.fails[2]
    /\ call.point_ids[2] \in StoredIds(call.events)
    /\ result.failed = <<call.point_ids[1]>>
    /\ result.success = <<call.point_ids[2]>>
    /\ call.point_ids[2] \notin StoredIds(events)

(***************************************************************************)
(* QdrantConnection (src/db/qdrant_client.py)                              *)
(*                                                                         *)
(* session holds the class and its environment: _instance (a client, or    *)
(* NoClient for None), clients (the QdrantClient objects constructed so    *)
(* far, in order; a client is its index; tested says whether a             *)
(* get_collections of the client has succeeded), reachable (whether Qdrant *)
(* answers now), threads (where each caller of get_client is).             *)
(***************************************************************************)
\* _instance: Optional[QdrantClient] = None
NoClient == 0

MaxClients == 3

ConnectionError == [raised |-> "ConnectionError"]

\* QdrantClient(url=..., api_key=..., timeout=10): a new object, not yet tested
Constructed(conn) ==
    [conn EXCEPT !.clients = Append(@, [tested |-> FALSE]),
                 !._instance = Len(conn.clients) + 1]

\* cls._instance.get_collections() has answered
Tested(conn) ==
    [conn EXCEPT !.clients[conn._instance].tested = TRUE]

\* QdrantConnection.get_client, run by one caller without interruption.
\* ctorRaises: the constructor raises (it can only when Qdrant is not
\* reachable or not configured); get_collections raises when Qdrant is not
\* reachable.
get_client(conn, ctorRaises) ==
    IF conn._instance = NoClient
    THEN IF ctorRaises
         THEN [conn |-> conn, result |-> ConnectionError]
         ELSE IF ~conn.reachable
         THEN [conn |-> Constructed(conn), result |-> ConnectionError]
         ELSE [conn |-> Tested(Constructed(conn)),
               result |-> [returned |-> Constructed(conn)._instance]]
    ELSE [conn |-> conn, result |-> [returned |-> conn._instance]]

\* QdrantConnection.reset
reset(conn) == [conn EXCEPT !._instance = NoClient]

(***************************************************************************)
(* ConnectSpec: get_client and reset called one after the other, Qdrant    *)
(* going down and coming back                                              *)
(***************************************************************************)
ConnectInit ==
    /\ events = <<>>
    /\ interactions = <<>>
    /\ nextId = [patient_events |-> 1, drug_interactions |-> 1]
    /\ call = [op |-> "init"]
    /\ result = None
    /\ \E up \in BOOLEAN :
           session = [pc |-> "connection", _instance |-> NoClient, clients |-> <<>>,
                      reachable |-> up, resets |-> 0]

GetClient(ctorRaises) ==
    /\ session._instance = NoClient => Len(session.clients) < MaxClients
    /\ ctorRaises => ~session.reachable
    /\ LET got == get_client(session, ctorRaises)
       IN  /\ session' = got.conn
           /\ result' = got.result
    /\ call' = [op |-> "get_client", reachable |-> session.reachable,
                _instance |-> session._instance]
    /\ UNCHANGED <<events, interactions, nextId>>

Reset ==
    /\ session.resets < MaxClients
    /\ session' = [reset(session) EXCEPT !.resets = @ + 1]
    /\ call' = [op |-> "reset"]
    /\ result' = None
    /\ UNCHANGED <<events, interactions, nextId>>

\* Qdrant stops answering, or answers again.
QdrantToggles ==
    /\ session' = [session EXCEPT !.reachable = ~@]
    /\ call' = [op |-> "environment"]
    /\ result' = None
    /\ UNCHANGED <<events, interactions, nextId>>

ConnectNext ==
    \/ \E ctorRaises \in BOOLEAN : GetClient(ctorRaises)
    \/ Reset
    \/ QdrantToggles

ConnectSpec == ConnectInit /\ [][ConnectNext]_vars

\* C23: after any sequence of get_client and reset calls, get_client returns
\* a client only if the get_collections of that client has succeeded; a call
\* that finds the client of a failed attempt raises ConnectionError.
C23_OnlyTestedClients ==
    (call.op = "get_client" /\ "returned" \in DOMAIN result)
        => session.clients[result.returned].tested

\* The call after a failed attempt, Qdrant still unreachable: the client of
\* the failed attempt is returned.
C23_UntestedReturned ==
    /\ call.op = "get_client" /\ ~call.reachable
    /\ call._instance /= NoClient
    /\ "returned" \in DOMAIN result
    /\ ~session.clients[result.returned].tested

\* Called one after the other and without a reset, get_client constructs at
\* most one client.
SequentialSingleton ==
    session.resets = 0 => Len(session.clients) <= 1

(***************************************************************************)
(* SingletonSpec: get_client called from several threads, no reset: the    *)
(* steps of get_client interleave                                          *)
(***************************************************************************)
MaxThreads == 2

Threads == 1..MaxThreads

SingletonInit ==
    /\ events = <<>>
    /\ interactions = <<>>
    /\ nextId = [patient_events |-> 1, drug_interactions |-> 1]
    /\ call = [op |-> "init"]
    /\ result = None
    /\ \E up \in BOOLEAN :
           session = [pc |-> "connection", _instance |-> NoClient, clients |-> <<>>,
                      reachable |-> up, resets |-> 0,
                      threads |-> [t \in Threads |-> "idle"],
                      received |-> {}]

At(t, line) == session.pc = "connection" /\ session.threads[t] = line

Goto(conn, t, line) == [conn EXCEPT !.threads[t] = line]

\* if cls._instance is None:                                       (line 30)
TestInstance(t) ==
    /\ At(t, "idle")
    /\ session' = Goto(session, t,
                       IF session._instance = NoClient THEN "construct" ELSE "return")
    /\ call' = [op |-> "get_client", thread |-> t]
    /\ result' = None
    /\ UNCHANGED <<events, interactions, nextId>>

\* cls._instance = QdrantClient(...)                           (lines 33-37)
Construct(t) ==
    /\ At(t, "construct")
    /\ session' = Goto(Constructed(session), t, "test")
    /\ call' = [op |-> "get_client", thread |-> t]
    /\ result' = None
    /\ UNCHANGED <<events, interactions, nextId>>

\* The constructor raises: except -> raise ConnectionError     (lines 41-44)
ConstructRaises(t) ==
    /\ At(t, "construct")
    /\ ~session.reachable
    /\ session' = Goto(session, t, "idle")
    /\ call' = [op |-> "get_client", thread |-> t]
    /\ result' = ConnectionError
    /\ UNCHANGED <<events, interactions, nextId>>

\* cls._instance.get_collections(), of the client that cls._instance is
\* now; except -> raise ConnectionError                        (lines 39-44)
TestConnection(t) ==
    /\ At(t, "test")
    /\ IF session.reachable
       THEN /\ session' = Goto(Tested(session), t, "return")
            /\ result' = None
       ELSE /\ session' = Goto(session, t, "idle")
            /\ result' = ConnectionError
    /\ call' = [op |-> "get_client", thread |-> t]
    /\ UNCHANGED <<events, interactions, nextId>>

\* return cls._instance                                            (line 46)
ReturnInstance(t) ==
    /\ At(t, "return")
    /\ session' = [Goto(session, t, "idle") EXCEPT !.received = @ \cup {session._instance}]
    /\ call' = [op |-> "get_client", thread |-> t]
    /\ result' = [returned |-> session._instance]
    /\ UNCHANGED <<events, interactions, nextId>>

SingletonNext ==
    \/ \E t \in Threads : TestInstance(t)
    \/ \E t \in Threads : Construct(t)
    \/ \E t \in Threads : ConstructRaises(t)
    \/ \E t \in Threads : TestConnection(t)
    \/ \E t \in Threads : ReturnInstance(t)
    \/ QdrantToggles

SingletonSpec == SingletonInit /\ [][SingletonNext]_vars

\* C28: whatever the interleaving of the get_client calls, at most one
\* QdrantClient is constructed, and every caller receives that one.
C28_OneClient ==
    /\ Len(session.clients) <= 1
    /\ Cardinality(session.received) <= 1

\* Two callers have received two different clients.
C28_TwoReceived ==
    Len(session.clients) = 2 /\ Cardinality(session.received) = 2

(***************************************************************************)
(* create_collections (src/db/collections.py)                              *)
(*                                                                         *)
(* session.server holds, for each collection name, whether the collection  *)
(* exists, how many points it holds and how often create_collection has    *)
(* made it.                                                                *)
(***************************************************************************)
\* The list `collections` of create_collections, by name
collections == <<"patient_events", "drug_interactions", "synthetic_patient_profiles">>

CollectionNames == { collections[i] : i \in DOMAIN collections }

\* client.create_collection(collection_name=..., vectors_config=...): a new,
\* empty collection
create_collection(server, name) ==
    [server EXCEPT ![name] = [exists |-> TRUE, points |-> 0, made |-> @.made + 1]]

\* Mutant: the collection is made without the collection_exists test.
RECURSIVE CreateLoop_NoTest(_, _, _, _)
CreateLoop_NoTest(server, colls, failing, created) ==
    IF colls = <<>> THEN [server |-> server, raised |-> FALSE, created |-> created]
    ELSE LET name == Head(colls)
         IN  IF name \in failing
             THEN [server |-> server, raised |-> TRUE, created |-> created]
             ELSE CreateLoop_NoTest(create_collection(server, name), Tail(colls), failing,
                                    Append(created, name))

\* for coll in collections: try: if not client.collection_exists(...):
\* client.create_collection(...) except Exception: raise.
\* failing: the names for which create_collection raises.
RECURSIVE CreateLoop(_, _, _, _)
CreateLoop(server, colls, failing, created) ==
    IF colls = <<>> THEN [server |-> server, raised |-> FALSE, created |-> created]
    ELSE LET name == Head(colls)
         IN  IF ~server[name].exists
             THEN IF name \in failing
                  THEN [server |-> server, raised |-> TRUE, created |-> created]
                  ELSE CreateLoop(create_collection(server, name), Tail(colls), failing,
                                  Append(created, name))
             ELSE CreateLoop(server, Tail(colls), failing, created)

create_collections(server, failing) == CreateLoop(server, collections, failing, <<>>)

(***************************************************************************)
(* CollectionsSpec: create_collections run again and again, points stored  *)
(* in between                                                              *)
(***************************************************************************)
MaxPoints == 1

MaxRuns == 3

Absent == [exists |-> FALSE, points |-> 0, made |-> 0]

CollectionsInit ==
    /\ events = <<>>
    /\ interactions = <<>>
    /\ nextId = [patient_events |-> 1, drug_interactions |-> 1]
    /\ call = [op |-> "init"]
    /\ result = None
    /\ \E existing \in SUBSET CollectionNames :
       \E stored \in [CollectionNames -> 0..MaxPoints] :
           session = [pc |-> "collections", runs |-> 0,
                      server |-> [name \in CollectionNames |->
                                     IF name \in existing
                                     THEN [exists |-> TRUE, points |-> stored[name],
                                           made |-> 0]
                                     ELSE Absent]]

CreateCollections(failing) ==
    /\ session.pc = "collections"
    /\ session.runs < MaxRuns
    /\ LET run == create_collections(session.server, failing)
       IN  /\ session' = [session EXCEPT !.server = run.server, !.runs = @ + 1]
           /\ result' = [raised |-> run.raised, created |-> run.created]
    /\ call' = [op |-> "create_collections", server |-> session.server,
                previous |-> IF call.op = "create_collections"
                             THEN result ELSE [raised |-> TRUE, created |-> <<>>]]
    /\ UNCHANGED <<events, interactions, nextId>>

\* client.upsert into a collection that exists (store_event and the like)
UpsertPoint(name) ==
    /\ session.pc = "collections"
    /\ session.server[name].exists
    /\ session.server[name].points < MaxPoints
    /\ session' = [session EXCEPT !.server[name].points = @ + 1]
    /\ call' = [op |-> "upsert"]
    /\ result' = None
    /\ UNCHANGED <<events, interactions, nextId>>

CollectionsNext ==
    \/ \E failing \in SUBSET CollectionNames : CreateCollections(failing)
    \/ \E name \in CollectionNames : UpsertPoint(name)

CollectionsSpec == CollectionsInit /\ [][CollectionsNext]_vars

\* The names missing on the server, in the order of the list.
Missing(server) == SelectSeq(collections, LAMBDA name : ~server[name].exists)

\* C24: from any subset of the three collections existing, a run leaves
\* every existing collection as it was and creates only missing ones; a run
\* that raises nothing has created exactly the missing ones, in order, and
\* leaves all three existing; a run that follows a run without error
\* creates nothing and raises nothing.
C24_Idempotent ==
    call.op = "create_collections" =>
        /\ \A name \in CollectionNames :
               call.server[name].exists => session.server[name] = call.server[name]
        /\ \A k \in DOMAIN result.created : ~call.server[result.created[k]].exists
        /\ ~result.raised =>
               /\ result.created = Missing(call.server)
               /\ \A name \in CollectionNames : session.server[name].exists
        /\ Missing(call.server) = <<>> =>
               /\ ~result.raised
               /\ result.created = <<>>
               /\ session.server = call.server
        /\ ~call.previous.raised => Missing(call.server) = <<>>

\* A run over a server with one collection, holding a point: the two
\* missing ones are created, the point is kept.
C24_Witness ==
    /\ call.op = "create_collections"
    /\ Len(Missing(call.server)) = 2
    /\ \E name \in CollectionNames :
           call.server[name].exists /\ call.server[name].points = 1
                                    /\ session.server[name].points = 1
    /\ ~result.raised /\ Len(result.created) = 2

\* A run right after a run without error, with a point stored before both.
C24_SecondRunWitness ==
    /\ call.op = "create_collections"
    /\ ~call.previous.raised /\ Len(call.previous.created) > 0
    /\ \E name \in CollectionNames : session.server[name].points = 1
    /\ ~result.raised /\ result.created = <<>>

(***************************************************************************)
(* migrate_add_point_ids (scripts/migrate_add_point_ids.py)                *)
(***************************************************************************)
\* client.scroll(..., with_payload=True, with_vectors=False): the records
\* come without their vectors (record.vector is None)
ScrollWithoutVectors(coll) ==
    [i \in DOMAIN coll |-> [id |-> coll[i].id, payload |-> coll[i].payload,
                            vector |-> Null]]

\* updated_payload = record.payload.copy(); updated_payload["point_id"] = record.id
WithPointId(payload, id) ==
    [k \in DOMAIN payload \cup {"point_id"} |->
        IF k = "point_id" THEN id ELSE payload[k]]

\* client.upsert(points=points_to_update), point after point
RECURSIVE UpsertAll(_, _)
UpsertAll(coll, points) ==
    IF points = <<>> THEN coll
    ELSE UpsertAll(upsert(coll, Head(points)), Tail(points))

\* migrate_add_point_ids.  PointStruct is given vector=None: the library
\* either rejects the point (accepts = FALSE: the exception is caught,
\* sys.exit(1)) or takes it (accepts = TRUE: the upsert stores the points as
\* built).
migrate_add_point_ids(coll, accepts) ==
    LET results == ScrollWithoutVectors(coll)
        needs_update == SelectSeq(results,
                                  LAMBDA record : "point_id" \notin DOMAIN record.payload)
        points_to_update ==
            [i \in DOMAIN needs_update |->
                PointStruct(needs_update[i].id, needs_update[i].vector,
                            WithPointId(needs_update[i].payload, needs_update[i].id))]
    IN  IF needs_update = <<>>
        THEN [coll |-> coll, exit |-> 0, migrated |-> 0]
        ELSE IF ~accepts
        THEN [coll |-> coll, exit |-> 1, migrated |-> 0]
        ELSE [coll |-> UpsertAll(coll, points_to_update), exit |-> 0,
              migrated |-> Len(points_to_update)]

(***************************************************************************)
(* MigrateSpec: events are stored and deleted, the migration is run        *)
(***************************************************************************)
MaxMigrated == 3

MigrateAddPointIds(accepts) ==
    /\ LET run == migrate_add_point_ids(events, accepts)
       IN  /\ events' = run.coll
           /\ result' = [exit |-> run.exit, migrated |-> run.migrated]
    /\ call' = [op |-> "migrate_add_point_ids", events |-> events,
                previous |-> IF call.op = "migrate_add_point_ids" THEN result.exit ELSE 1]
    /\ UNCHANGED <<interactions, nextId, session>>

MigrateNext ==
    \/ \E e \in FailingEvents : nextId.patient_events <= MaxMigrated /\ StoreEvent(e)
    \/ \E id \in 1..MaxMigrated : DeleteEvent(id)
    \/ \E accepts \in BOOLEAN : MigrateAddPointIds(accepts)

MigrateSpec == Init /\ [][MigrateNext]_vars

\* The payload without its point_id.
WithoutPointId(payload) == [k \in DOMAIN payload \ {"point_id"} |-> payload[k]]

\* C30: after a run every stored event has payload.point_id equal to its
\* id, and its vector and its other payload fields are those from before the
\* run; an event that carried point_id is as it was; a second run changes
\* nothing.
C30_OnlyPointIdAdded ==
    call.op = "migrate_add_point_ids" =>
        /\ Len(events) = Len(call.events)
        /\ \A i \in DOMAIN events :
               /\ events[i].id = call.events[i].id
               /\ "point_id" \in DOMAIN events[i].payload
               /\ events[i].payload.point_id = events[i].id
               /\ events[i].vector = call.events[i].vector
               /\ WithoutPointId(events[i].payload) = WithoutPointId(call.events[i].payload)
               /\ "point_id" \in DOMAIN call.events[i].payload
                      => events[i] = call.events[i]
        /\ call.previous = 0 => events = call.events

\* What the run does keep: ids, the payload fields other than point_id, the
\* events that carried point_id; a run after a run that ended well changes
\* nothing.
MigrationFrame ==
    call.op = "migrate_add_point_ids" =>
        /\ Len(events) = Len(call.events)
        /\ \A i \in DOMAIN events :
               /\ events[i].id = call.events[i].id
               /\ WithoutPointId(events[i].payload) = WithoutPointId(call.events[i].payload)
               /\ "point_id" \in DOMAIN call.events[i].payload
                      => events[i] = call.events[i]
        /\ call.previous = 0 => events = call.events

\* The library rejects the points: the run ends with exit status 1 and the
\* event is still without point_id.
C30_NothingMigrated ==
    /\ call.op = "migrate_add_point_ids"
    /\ result.exit = 1
    /\ \E i \in DOMAIN events : "point_id" \notin DOMAIN events[i].payload

\* The library takes the points: the embedding of the event is gone.
C30_VectorLost ==
    /\ call.op = "migrate_add_point_ids"
    /\ result.exit = 0
    /\ \E i \in DOMAIN events :
           events[i].vector = Null /\ call.events[i].vector /= Null

==========================================================================
